---- MODULE Spec2Model ----
(***************************************************************************)
(* A model of VecTank (satorunnlg/VecTank).                               *)
(*                                                                         *)
(* vectank/tank.py  VecTank : a fixed-capacity vector buffer plus an       *)
(*                  insertion-ordered metadata dict published as a blob.   *)
(* vectank/core.py  the similarity functions.                              *)
(* vectank/table.py VectorTable : the in-process table and its search.     *)
(*                                                                         *)
(* Python values are modelled as follows.                                  *)
(*   str          a sequence of one-character strings, so that str(int)    *)
(*                and int(str) are computed digit by digit;                *)
(*   dict         a sequence of [k, v] records in insertion order;         *)
(*   metadata     records (Python dicts with string fields);               *)
(*   float32 row  a sequence of Dim small integers (exactly representable, *)
(*                so astype(float32) does not change them);                *)
(*   score        a rational [n, d] that is an order-isomorphic image of   *)
(*                the float score (see the similarity section).            *)
(***************************************************************************)
EXTENDS Integers, Sequences, FiniteSets, TLC

VARIABLES
  vectors,    \* VecTank.vectors : MaxCap rows of Dim numbers (shared memory)
  metadata,   \* VecTank.metadata : ordered dict, always holding "params"
  blob,       \* the bytes of VecTank.meta_shm (MetaShmSize cells)
  last,       \* the caller's call record: IDLE, or [op |-> name, arguments...]
  ret,        \* what that call produced: [kind |-> "ok", val |-> v] or an exception
  rank,       \* the ranking step of a search applied to a score array on its own
  prev,       \* history: the call completed just before the current one, when it was
              \* a returning add_vector or a clear (else NoPrev)
  tanks,      \* TankStore.tanks : ordered dict, tank name -> VecTank object
  segments,   \* the shared memory blocks that exist, by name
  objs,       \* the number of VecTank objects constructed by the store
  dir,        \* the persistence directory: per tank name its .npz and .pkl file
  table,      \* a VectorTable: _vectors, _metadata, _key_to_index, _auto_id
  comm,       \* the bytes of the command region (CommSize cells)
  commShm,    \* the command region: whether it exists, whether the store closed it
  loop,       \* the store's polling thread: where it is, the command it read
  stopper,    \* the thread calling stop_event_loop, close, unlink on the store
  snd,        \* per producer: its call of send_command_to_store
  lock,       \* per producer process: the holder of VecTank._lock (0: free)
  disp,       \* history: the commands the polling thread has handled, in order
  th          \* per thread of the tank's process: where it is in a tank operation

tankVars == <<vectors, metadata, blob, last, ret, prev>>

storeVars == <<tanks, segments, objs>>

\* the variables of the parts modelled after the store's registry
chanVars == <<comm, commShm, loop, stopper, snd, lock, disp, th>>

beyond == <<dir, table, chanVars>>

\* what the VecTank methods leave alone
aside == <<rank, storeVars, beyond>>

vars == <<vectors, metadata, blob, last, ret, rank, prev, tanks, segments, objs, dir, table,
          comm, commShm, loop, stopper, snd, lock, disp, th>>

----------------------------------------------------------------------------
(* Bounds of the model.                                                    *)

MaxCap == 2

Dim == 2

SingleMetaSize == 7

MaxRows == 3

\* the number of VecTank objects a TankStore constructs
MaxObjs == 3

\* the size of the command region in bytes (1024 in the code)
CommSize == 30

\* the number of commands one producer submits
MaxSends == 2

\* the longest timeout a producer passes, in poll intervals of 0.1 s
MaxTimeout == 2

\* the longest prefix of a command that is seen in the region without the rest
MaxTorn == 1

\* the largest dimension and capacity of the tanks a handle attaches to
MaxShapeDim == 2

MaxShapeCap == 3

\* the number of times the store is released (stop_event_loop, close, unlink)
MaxStops == 2

----------------------------------------------------------------------------
(* Python helpers.                                                         *)

Min(a, b) == IF a <= b THEN a ELSE b

DigitVal == ("0" :> 0) @@ ("1" :> 1) @@ ("2" :> 2) @@ ("3" :> 3) @@ ("4" :> 4) @@
            ("5" :> 5) @@ ("6" :> 6) @@ ("7" :> 7) @@ ("8" :> 8) @@ ("9" :> 9)

DigitChar(n) == CHOOSE c \in DOMAIN DigitVal : DigitVal[c] = n

\* str(n) for n >= 0: decimal digits, no leading zero.
RECURSIVE PyStr(_)
PyStr(n) == IF n < 10 THEN <<DigitChar(n)>>
            ELSE PyStr(n \div 10) \o <<DigitChar(n % 10)>>

\* int(s) succeeds on a non-empty string of decimal digits (leading zeros allowed);
\* anything else raises ValueError.
IsIntLiteral(s) == Len(s) > 0 /\ \A i \in 1..Len(s) : s[i] \in DOMAIN DigitVal

RECURSIVE PyInt(_)
PyInt(s) == IF Len(s) = 0 THEN 0
            ELSE 10 * PyInt(SubSeq(s, 1, Len(s) - 1)) + DigitVal[s[Len(s)]]

None == [none |-> TRUE]

\* dict operations on an insertion-ordered sequence of [k, v].
DictHas(d, k) == \E i \in 1..Len(d) : d[i].k = k

DictGet(d, k) == IF DictHas(d, k)
                 THEN d[CHOOSE i \in 1..Len(d) : d[i].k = k].v
                 ELSE None

DictSet(d, k, v) == IF DictHas(d, k)
                    THEN [i \in 1..Len(d) |-> IF d[i].k = k THEN [k |-> k, v |-> v] ELSE d[i]]
                    ELSE Append(d, [k |-> k, v |-> v])

DictKeys(d) == [i \in 1..Len(d) |-> d[i].k]

PARAMS == <<"p", "a", "r", "a", "m", "s">>
COUNT == <<"c", "o", "u", "n", "t">>

----------------------------------------------------------------------------
(* The tank's shape and the metadata blob.                                 *)

\* metadata["params"] as VecTank.__init__ builds it.
ParamsVal == [dim |-> Dim, dtype |-> "float32", default_sim_method |-> "COSINE",
              max_capacity |-> MaxCap, persist |-> FALSE, tank_name |-> "t",
              meta_shm_single_size |-> SingleMetaSize]

\* _meta_shm_size, set in create_shared_memory.
MetaShmSize == SingleMetaSize * MaxCap

ZeroRow == [i \in 1..Dim |-> 0]

ZERO == [t |-> "zero"]
STOP == [t |-> "stop"]
CONT == [t |-> "cont"]

RECURSIVE Repeat(_, _)
Repeat(x, n) == IF n <= 0 THEN <<>> ELSE <<x>> \o Repeat(x, n - 1)

\* pickle.dumps(dict): per entry one cell naming key and value followed by one cell per
\* field of the value, then the STOP opcode that ends every pickle.
RECURSIVE PickleDumps(_)
PickleDumps(d) ==
  IF Len(d) = 0 THEN <<STOP>>
  ELSE <<[t |-> "entry", k |-> d[1].k, v |-> d[1].v]>>
       \o Repeat(CONT, Cardinality(DOMAIN d[1].v)) \o PickleDumps(Tail(d))

RECURSIVE RStripZero(_)
RStripZero(s) == IF Len(s) > 0 /\ s[Len(s)] = ZERO
                 THEN RStripZero(SubSeq(s, 1, Len(s) - 1)) ELSE s

IsEntry(c) == c.t = "entry"

\* pickle.loads: the entries up to the first STOP opcode, in order; what follows the
\* STOP is not read.
PickleLoads(bytes) ==
  LET stops == {i \in 1..Len(bytes) : bytes[i] = STOP}
      end == IF stops = {} THEN Len(bytes) ELSE CHOOSE i \in stops : \A j \in stops : i <= j
      ent == SelectSeq(SubSeq(bytes, 1, end), IsEntry)
  IN  [i \in 1..Len(ent) |-> [k |-> ent[i].k, v |-> ent[i].v]]

\* _read_shared_metadata: bytes(buf).rstrip(b'\x00') then pickle.loads.
ReadSharedMetadata(buf) == PickleLoads(RStripZero(buf))

\* What _update_shared_metadata leaves in the region when the size check passes.
Published(d) == PickleDumps(d) \o Repeat(ZERO, MetaShmSize - Len(PickleDumps(d)))

Fits(d) == Len(PickleDumps(d)) <= MetaShmSize

\* __len__
TankLen(d) == Len(d) - 1

\* the caller holds no call record
IDLE == [op |-> "idle"]

\* no add_vector or clear completed just before
NoPrev == [op |-> "none"]

Ok(v) == [kind |-> "ok", val |-> v]
Raise(e) == [kind |-> e]

----------------------------------------------------------------------------
(* vectank/core.py: the similarity functions.                              *)
(*                                                                         *)
(* A score is kept as a rational [n, d], d > 0, the image of the float     *)
(* score under a strictly increasing map, so that comparing two scores of  *)
(* one search is exact: for inner the score itself; for cosine             *)
(* sgn(x) * x^2 of x = dot / (|v| |q|) (0 when a norm is 0: the code       *)
(* divides 0 by 1e-8; for the rows modelled here |v| |q| >= 1, where       *)
(* float32 absorbs the 1e-8); for euclidean -(distance^2).                 *)

RECURSIVE DotUpTo(_, _, _)
DotUpTo(a, b, i) == IF i = 0 THEN 0 ELSE a[i] * b[i] + DotUpTo(a, b, i - 1)

Dot(a, b) == DotUpTo(a, b, Len(a))

Sgn(x) == IF x > 0 THEN 1 ELSE IF x < 0 THEN -1 ELSE 0

calc_inner(data, query) == [r \in 1..Len(data) |-> [n |-> Dot(data[r], query), d |-> 1]]

calc_cosine(data, query) ==
  [r \in 1..Len(data) |->
     LET dot == Dot(data[r], query)
         nn == Dot(data[r], data[r]) * Dot(query, query)
     IN  IF nn = 0 THEN [n |-> 0, d |-> 1] ELSE [n |-> Sgn(dot) * dot * dot, d |-> nn]]

calc_euclidean(data, query) ==
  [r \in 1..Len(data) |->
     LET diff == [i \in 1..Len(query) |-> data[r][i] - query[i]]
     IN  [n |-> 0 - Dot(diff, diff), d |-> 1]]

\* str.lower() on the metric names used here
Lower(m) == CASE m = "COSINE" -> "cosine"
              [] m = "Inner" -> "inner"
              [] OTHER -> m

\* the keys of SIM_METHODS
SimMethodNames == {"inner", "cosine", "euclidean"}

\* SIM_METHODS[name](data, query)
SIM_METHODS(name, data, query) ==
  CASE name = "inner" -> calc_inner(data, query)
    [] name = "cosine" -> calc_cosine(data, query)
    [] name = "euclidean" -> calc_euclidean(data, query)

ScoreLe(a, b) == a.n * b.d <= b.n * a.d
ScoreEq(a, b) == a.n * b.d = b.n * a.d
ScoreLt(a, b) == a.n * b.d < b.n * a.d

Perms(n) == {p \in [1..n -> 1..n] : \A i, j \in 1..n : i # j => p[i] # p[j]}

\* An argsort that ranks the scores themselves, lowest first.
ArgsortDesc_Ascending(scores) ==
  {p \in Perms(Len(scores)) :
     \A i \in 1..(Len(scores) - 1) : ScoreLe(scores[p[i]], scores[p[i + 1]])}

\* np.argsort(-scores) with the default kind ("quicksort", not stable): a permutation of
\* the rows (numbered from 1) in non-increasing score; numpy does not fix the order of
\* rows with equal scores, so every such permutation is a possible outcome.
ArgsortDesc(scores) ==
  {p \in Perms(Len(scores)) :
     \A i \in 1..(Len(scores) - 1) : ScoreLe(scores[p[i + 1]], scores[p[i]])}

\* seq[:k] for k >= 0
Take(seq, k) == SubSeq(seq, 1, Min(k, Len(seq)))

Range(seq) == {seq[i] : i \in 1..Len(seq)}

\* A search that takes the top_k rows from the low end of the ranking.
TankTopK_LowEnd(scores, top_k) ==
  {Take([j \in 1..Len(p) |-> p[Len(p) + 1 - j]], top_k) : p \in ArgsortDesc(scores)}

\* VecTank.search: np.argsort(-scores)[:top_k]
TankTopK(scores, top_k) == {Take(p, top_k) : p \in ArgsortDesc(scores)}

\* np.argpartition(-scores, kth)[:kth] for kth < len(scores): kth distinct rows, in any
\* order, none of which scores less than a row left out.
ArgPartitionHead(scores, kth) ==
  {h \in [1..kth -> 1..Len(scores)] :
     /\ \A i, j \in 1..kth : i # j => h[i] # h[j]
     /\ \A i \in 1..kth : \A r \in (1..Len(scores)) \ Range(h) :
          ScoreLe(scores[r], scores[h[i]])}

\* VectorTable.search: the full sort when top_k >= len(scores), else the partition and
\* top_indices[np.argsort(-scores[top_indices])].
TableTopIndices(scores, top_k) ==
  IF top_k >= Len(scores) THEN ArgsortDesc(scores)
  ELSE UNION {{[j \in 1..top_k |-> h[q[j]]] :
                 q \in ArgsortDesc([j \in 1..top_k |-> scores[h[j]]])} :
              h \in ArgPartitionHead(scores, top_k)}

----------------------------------------------------------------------------
(* Inputs.                                                                 *)

Seeds == {<<1>>, <<2>>, <<0, 1>>}

Pad(p) == [i \in 1..Dim |-> IF i <= Len(p) THEN p[i] ELSE 0]

\* vectors of shape (Dim,) that callers store
Vecs == {Pad(p) : p \in Seeds}

\* a vector of another shape
WrongVec == [i \in 1..(Dim + 1) |-> 1]

\* queries: the stored vectors and the zero vector
Queries == Vecs \cup {ZeroRow}

MetaA == [g |-> "A"]
MetaBig == [g |-> "B", h |-> "x", i |-> "y"]
Metas == {MetaA, MetaBig}

\* key arguments: "0".."MaxCap+1", a numeral with a leading zero, a non-numeral
KeyArgs == {PyStr(i) : i \in 0..(MaxCap + 1)} \cup {<<"0", "1">>, <<"x">>}

SeqsUpTo(S, n) == UNION {[1..m -> S] : m \in 0..n}

\* add_vectors: arrays of 0..MaxCap rows of width Dim and one array of another width;
\* a metadata_list of the same length or one longer; keys None, a list of the same
\* length made of the caller's key, or a list one longer.
BatchVecs == {Pad(<<1>>), Pad(<<0, 1>>)}

Batches == {[width |-> Dim, rows |-> rs] : rs \in SeqsUpTo(BatchVecs, MaxCap)}
           \cup {[width |-> Dim + 1, rows |-> <<WrongVec>>]}

MetaLists(n) == [1..n -> Metas] \cup {[i \in 1..(n + 1) |-> MetaA]}

CallerKey == PyStr(2)

KeyLists(n) == {None, [list |-> [i \in 1..n |-> CallerKey]],
                [list |-> [i \in 1..(n + 1) |-> CallerKey]]}

NoMetric == "<None>"
MetricArgs == {NoMetric, "Inner", "euclidean", "manhattan"}

TopKs == 0..(MaxCap + 1)

----------------------------------------------------------------------------
(* VecTank operations.                                                     *)

\* The names a file of the persistence directory can carry: "t" is the tank of the
\* variables vectors, metadata and blob, "a" and "b" are the store's other tanks.
FileNames == {"a", "b", "t"}

\* a file that does not exist
NoNpz == [state |-> "none", vectors |-> <<>>]
NoPkl == [state |-> "none", metadata |-> <<>>]

\* an empty persistence directory
NoFiles == [n \in FileNames |-> [npz |-> NoNpz, pkl |-> NoPkl]]

\* VectorTable.__init__
EmptyTable == [vectors |-> <<>>, metadata |-> <<>>, key_to_index |-> <<>>, auto_id |-> 0]

\* a zero byte of the command region
NUL == "NUL"

\* The producers: 1 and 2 are threads of one process, 3 is another process.
Producers == {1, 2, 3}

Proc(p) == IF p = 3 THEN "q" ELSE "p"

\* A producer that is not in send_command_to_store. A producer's record holds where it
\* is (at), its arguments (cmd, timeout), the bytes written so far when its write is
\* under way (k), the sleeps it has taken (polls), the calls it has made (sends), what
\* the last call produced (result), and two history fields: the number of commands the
\* store had handled when the call began (seen) and whether another producer has
\* replaced its pending command in the region (over).
NoCall == [at |-> "out", cmd |-> <<>>, timeout |-> 0, k |-> 0, polls |-> 0, sends |-> 0,
           result |-> "none", seen |-> 0, over |-> "no"]

\* The threads that call the tank's methods: the two of process "p"
Threads == {p \in Producers : Proc(p) = "p"}

\* A thread outside any tank operation. A thread's record holds where it is (at), the
\* tank state it found when its operation began (seen, history) and whether it has
\* completed an operation (ran, history).
NoOp == [at |-> "out", seen |-> <<>>, ran |-> FALSE]

\* The command channel after TankStore.__init__: the region exists and is zeroed, the
\* polling thread is started, nobody has asked it to stop.
InitChannel ==
  /\ comm = [i \in 1..CommSize |-> NUL]
  /\ commShm = [exists |-> TRUE, closed |-> FALSE]
  /\ loop = [at |-> "poll"]
  /\ stopper = [at |-> "out", flag |-> FALSE, calls |-> 0, closed |-> {}, result |-> "ok"]
  /\ snd = [p \in Producers |-> NoCall]
  /\ lock = [q \in {Proc(p) : p \in Producers} |-> 0]
  /\ disp = <<>>
  /\ th = [t \in Threads |-> NoOp]

\* The tank after VecTank.__init__ and create_shared_memory, and a caller with no call.
InitTank ==
  /\ vectors = [i \in 1..MaxCap |-> ZeroRow]
  /\ metadata = <<[k |-> PARAMS, v |-> ParamsVal]>>
  /\ blob = Published(<<[k |-> PARAMS, v |-> ParamsVal]>>)
  /\ last = IDLE
  /\ ret = Ok(None)
  /\ rank = [path |-> "none"]
  /\ prev = NoPrev

Init ==
  /\ InitTank
  /\ tanks = <<>>
  /\ segments = {}
  /\ objs = 0
  /\ dir = NoFiles
  /\ table = EmptyTable
  /\ InitChannel

\* A method tail that returns without calling _update_shared_metadata.
Publish_NotCalled(vs, md, v) ==
  /\ vectors' = vs
  /\ metadata' = md
  /\ blob' = blob
  /\ ret' = Ok(v)

\* The tail every mutating method shares: the method has set the rows to vs and the
\* dict to md, then calls _update_shared_metadata, which either raises MemoryError
\* (rows and dict stay changed) or rewrites the region; on success the method returns v.
Publish(vs, md, v) ==
  /\ vectors' = vs
  /\ metadata' = md
  /\ IF Fits(md)
     THEN blob' = Published(md) /\ ret' = Ok(v)
     ELSE blob' = blob /\ ret' = Raise("MemoryError")

\* A method that raises e before changing anything.
Fail(e) ==
  /\ ret' = Raise(e)
  /\ UNCHANGED <<vectors, metadata, blob>>

add_vector(vector, meta) ==
  LET num_vectors == TankLen(metadata)
      key == PyStr(num_vectors + 1)
  IN  /\ last = IDLE
      /\ last' = [op |-> "add_vector", vector |-> vector, meta |-> meta]
      /\ IF num_vectors >= MaxCap THEN Fail("MemoryError")
         ELSE IF Len(vector) # Dim THEN Fail("ValueError")
         ELSE Publish([vectors EXCEPT ![num_vectors + 1] = vector],
                      DictSet(metadata, key, meta), key)

AddVector ==
  \E vector \in Vecs \cup {WrongVec}, meta \in Metas :
    add_vector(vector, meta) /\ UNCHANGED <<aside, prev>>

\* add_vectors(vectors, metadata_list, keys): vectors is an n x width array, keys is
\* None or a list of caller-supplied keys.
add_vectors(vecs, metadata_list, keys) ==
  LET n == Len(vecs.rows)
      num_vectors == TankLen(metadata)
      KeyAt(i) == IF keys = None THEN PyStr(num_vectors + i) ELSE keys.list[i]
      \* the loop body for i = 1..n, applied in order
      RowsAfter == [r \in 1..MaxCap |->
                      IF r > num_vectors /\ r <= num_vectors + n
                      THEN vecs.rows[r - num_vectors] ELSE vectors[r]]
      MetaAfter[i \in 0..n] ==
        IF i = 0 THEN metadata ELSE DictSet(MetaAfter[i - 1], KeyAt(i), metadata_list[i])
  IN  /\ last = IDLE
      /\ last' = [op |-> "add_vectors", vectors |-> vecs, metadata_list |-> metadata_list,
                  keys |-> keys]
      /\ IF vecs.width # Dim THEN Fail("ValueError")
         ELSE IF Len(metadata_list) # n THEN Fail("ValueError")
         ELSE IF keys # None /\ Len(keys.list) # n THEN Fail("ValueError")
         ELSE IF num_vectors + n > MaxCap THEN Fail("MemoryError")
         ELSE Publish(RowsAfter, MetaAfter[n], [i \in 1..n |-> KeyAt(i)])

AddVectors ==
  \E vecs \in Batches :
    \E metadata_list \in MetaLists(Len(vecs.rows)), keys \in KeyLists(Len(vecs.rows)) :
      add_vectors(vecs, metadata_list, keys) /\ UNCHANGED <<aside, prev>>

\* update_vector(key, new_vector, new_metadata); new_metadata may be None.
update_vector(key, new_vector, new_metadata) ==
  LET idx == PyInt(key) - 1
      num_vectors == TankLen(metadata)
  IN  /\ last = IDLE
      /\ last' = [op |-> "update_vector", key |-> key, new_vector |-> new_vector,
                  new_metadata |-> new_metadata]
      /\ IF ~IsIntLiteral(key) THEN Fail("ValueError")
         ELSE IF idx < 0 \/ idx >= num_vectors THEN Fail("KeyError")
         ELSE IF Len(new_vector) # Dim THEN Fail("ValueError")
         ELSE IF idx >= MaxCap THEN Fail("IndexError")
         ELSE Publish([vectors EXCEPT ![idx + 1] = new_vector],
                      IF new_metadata # None THEN DictSet(metadata, key, new_metadata)
                      ELSE metadata,
                      None)

UpdateVector ==
  \E key \in KeyArgs, new_vector \in {Pad(<<2>>), WrongVec}, new_metadata \in {MetaBig, None} :
    update_vector(key, new_vector, new_metadata) /\ UNCHANGED <<aside, prev>>

\* for i in range(i, stop): vectors[i] = vectors[i + 1]   (0-based i; row i is vs[i + 1]).
\* Reading a row at or past MaxCap raises IndexError and leaves the rows moved so far.
RECURSIVE ShiftLoop(_, _, _)
ShiftLoop(vs, i, stop) ==
  IF i >= stop THEN [vs |-> vs, err |-> FALSE]
  ELSE IF i + 1 >= MaxCap THEN [vs |-> vs, err |-> TRUE]
  ELSE ShiftLoop([vs EXCEPT ![i + 1] = vs[i + 2]], i + 1, stop)

\* The rebuilt dict of delete: "params" first, then every other entry whose int(key) is
\* not drop, renumbered "1", "2", ... in insertion order.
\* A renumbering that keeps the entry of the deleted key.
Renumber_KeepsAll(items, drop, new_idx) ==
  LET live == SelectSeq(items, LAMBDA e : e.k \notin {PARAMS, COUNT})
  IN  [j \in 1..Len(live) |-> [k |-> PyStr(new_idx + j), v |-> live[j].v]]

RECURSIVE Renumber(_, _, _)
Renumber(items, drop, new_idx) ==
  IF Len(items) = 0 THEN <<>>
  ELSE IF items[1].k \in {PARAMS, COUNT} \/ PyInt(items[1].k) = drop
       THEN Renumber(Tail(items), drop, new_idx)
       ELSE <<[k |-> PyStr(new_idx + 1), v |-> items[1].v]>>
            \o Renumber(Tail(items), drop, new_idx + 1)

delete(key) ==
  LET idx == PyInt(key) - 1
      count == TankLen(metadata)
      shifted == ShiftLoop(vectors, idx, count - 1)
      zeroed == [shifted.vs EXCEPT ![count] = ZeroRow]
      new_meta == <<[k |-> PARAMS, v |-> DictGet(metadata, PARAMS)]>>
                  \o Renumber(metadata, idx + 1, 0)
  IN  /\ last = IDLE
      /\ last' = [op |-> "delete", key |-> key]
      /\ IF ~IsIntLiteral(key) THEN Fail("ValueError")
         ELSE IF idx < 0 \/ idx >= count THEN Fail("KeyError")
         ELSE IF shifted.err \/ count > MaxCap
              THEN \* IndexError in the shift loop or at vectors[count - 1].fill(0)
                   /\ vectors' = shifted.vs
                   /\ ret' = Raise("IndexError")
                   /\ UNCHANGED <<metadata, blob>>
         ELSE IF \E j \in 1..Len(metadata) :
                   metadata[j].k \notin {PARAMS, COUNT} /\ ~IsIntLiteral(metadata[j].k)
              THEN \* int(old_key) raises after the rows were moved
                   /\ vectors' = zeroed
                   /\ ret' = Raise("ValueError")
                   /\ UNCHANGED <<metadata, blob>>
         ELSE Publish(zeroed, new_meta, None)

Delete == \E key \in KeyArgs : delete(key) /\ UNCHANGED <<aside, prev>>

\* for new_i, old_i in enumerate(keep_idxs): vectors[new_i] = vectors[old_i], started at
\* position j of keep (0-based indices); IndexError when old_i is at or past MaxCap.
RECURSIVE CompactLoop(_, _, _)
CompactLoop(vs, keep, j) ==
  IF j > Len(keep) THEN [vs |-> vs, err |-> FALSE]
  ELSE IF keep[j] >= MaxCap THEN [vs |-> vs, err |-> TRUE]
  ELSE CompactLoop([vs EXCEPT ![j] = vs[keep[j] + 1]], keep, j + 1)

\* [i for i in range(count) if i not in del_idxs], from i upward
RECURSIVE KeepIdxs(_, _, _)
KeepIdxs(i, count, del_idxs) ==
  IF i >= count THEN <<>>
  ELSE (IF i \in del_idxs THEN <<>> ELSE <<i>>) \o KeepIdxs(i + 1, count, del_idxs)

\* A delete_keys whose range check never fires, so that keys out of range are passed over.
KeyOutOfRange_Skipped(del_idxs, count) == FALSE

\* the range check: any(idx < 0 or idx >= count for idx in del_idxs)
KeyOutOfRange(del_idxs, count) == \E idx \in del_idxs : idx < 0 \/ idx >= count

delete_keys(keys) ==
  LET del_idxs == {PyInt(keys[i]) - 1 : i \in 1..Len(keys)}
      count == TankLen(metadata)
      keep_idxs == KeepIdxs(0, count, del_idxs)
      new_count == Len(keep_idxs)
      compacted == CompactLoop(vectors, keep_idxs, 1)
      zeroed == [r \in 1..MaxCap |->
                   IF r > new_count /\ r <= count THEN ZeroRow ELSE compacted.vs[r]]
      new_meta == <<[k |-> PARAMS, v |-> DictGet(metadata, PARAMS)]>>
                  \o [j \in 1..new_count |->
                        [k |-> PyStr(j), v |-> DictGet(metadata, PyStr(keep_idxs[j] + 1))]]
  IN  /\ last = IDLE
      /\ last' = [op |-> "delete_keys", keys |-> keys]
      /\ IF \E i \in 1..Len(keys) : ~IsIntLiteral(keys[i]) THEN Fail("KeyError")
         ELSE IF KeyOutOfRange(del_idxs, count) THEN Fail("KeyError")
         ELSE IF compacted.err
              THEN \* IndexError while moving a row from past the buffer
                   /\ vectors' = compacted.vs
                   /\ ret' = Raise("IndexError")
                   /\ UNCHANGED <<metadata, blob>>
         ELSE IF new_count < count /\ count > MaxCap
              THEN \* IndexError while zero-filling past the buffer
                   /\ vectors' = zeroed
                   /\ ret' = Raise("IndexError")
                   /\ UNCHANGED <<metadata, blob>>
         ELSE IF \E j \in 1..new_count : ~DictHas(metadata, PyStr(keep_idxs[j] + 1))
              THEN \* old_meta[str(old_i + 1)] raises KeyError after the rows were moved
                   /\ vectors' = zeroed
                   /\ ret' = Raise("KeyError")
                   /\ UNCHANGED <<metadata, blob>>
         ELSE Publish(zeroed, new_meta, keys)

DeleteKeys == \E keys \in SeqsUpTo(KeyArgs, MaxCap) : delete_keys(keys) /\ UNCHANGED <<aside, prev>>

\* A clear that drops the metadata and leaves the rows as they are.
clear_KeepsRows ==
  /\ last = IDLE
  /\ last' = [op |-> "clear"]
  /\ Publish(vectors, <<[k |-> PARAMS, v |-> DictGet(metadata, PARAMS)]>>, None)

clear ==
  /\ last = IDLE
  /\ last' = [op |-> "clear"]
  /\ Publish([i \in 1..MaxCap |-> ZeroRow],
             <<[k |-> PARAMS, v |-> DictGet(metadata, PARAMS)]>>, None)

Clear == clear /\ UNCHANGED <<aside, prev>>

\* What search(query, top_k, sim_method) can produce on rows vs and dict md. Row i
\* (0-based) is reported under the key str(i + 1) with self.metadata.get(key).
SearchOutcomes(vs, md, query, top_k, sim_method) ==
  LET num_vectors == TankLen(md)
      method == IF sim_method # NoMetric THEN sim_method
                ELSE ParamsVal.default_sim_method
      method_key == Lower(method)
      data == SubSeq(vs, 1, Min(num_vectors, MaxCap))
      scores == SIM_METHODS(method_key, data, query)
      Results(sorted_indices) ==
        [j \in 1..Len(sorted_indices) |->
           LET i == sorted_indices[j]
           IN  [key |-> PyStr(i), score |-> scores[i], vector |-> vs[i],
                metadata |-> DictGet(md, PyStr(i))]]
  IN  IF Len(query) # Dim THEN {Raise("ValueError")}
      ELSE IF num_vectors = 0 THEN {Ok(<<>>)}
      ELSE IF method_key \notin SimMethodNames THEN {Raise("ValueError")}
      ELSE {Ok(Results(t)) : t \in TankTopK(scores, top_k)}

\* search reads only.
search(query, top_k, sim_method) ==
  /\ last = IDLE
  /\ last' = [op |-> "search", query |-> query, top_k |-> top_k, sim_method |-> sim_method]
  /\ ret' \in SearchOutcomes(vectors, metadata, query, top_k, sim_method)
  /\ UNCHANGED <<vectors, metadata, blob>>

Search ==
  \E query \in Queries \cup {WrongVec}, top_k \in TopKs, sim_method \in MetricArgs :
    search(query, top_k, sim_method) /\ UNCHANGED <<aside, prev>>

\* A value of a conditions dict: a string, or None.
Str(x) == [s |-> x]

\* meta.get(k) for a metadata dict meta
MetaGet(meta, k) == IF k \in DOMAIN meta THEN Str(meta[k]) ELSE None

\* conditions(meta) for the callables used here
CallCondition(fn, meta) ==
  CASE fn = "has_h" -> "h" \in DOMAIN meta
    [] fn = "any" -> TRUE

\* the conditions arguments: None, equality maps (dicts, as [k, v] entries), callables,
\* and a value that is neither (a list)
EqMaps ==
  {<<>>,
   <<[k |-> "g", v |-> Str("A")]>>,
   <<[k |-> "g", v |-> Str("B")], [k |-> "h", v |-> Str("x")]>>,
   <<[k |-> "g", v |-> Str("A")], [k |-> "h", v |-> Str("x")]>>,
   <<[k |-> "h", v |-> None]>>}

Conditions ==
  {None, [kind |-> "list"]}
    \cup {[kind |-> "dict", items |-> m] : m \in EqMaps}
    \cup {[kind |-> "callable", fn |-> f] : f \in {"has_h", "any"}}

\* A filter that selects an entry as soon as one listed field matches.
FilterOutcome_AnyField(md, conditions) ==
  LET live == SelectSeq(md, LAMBDA e : e.k # PARAMS)
      Selected(e) ==
        \E i \in 1..Len(conditions.items) :
          MetaGet(e.v, conditions.items[i].k) = conditions.items[i].v
      filtered == SelectSeq(live, Selected)
  IN  IF conditions = None \/ conditions.kind # "dict" THEN Ok(<<>>)
      ELSE Ok([j \in 1..Len(filtered) |-> filtered[j].k])

\* What filter_by_metadata(conditions) returns or raises on the dict md: the loop visits
\* the entries other than "params" in insertion order and tests the type of conditions
\* inside the loop body.
FilterOutcome(md, conditions) ==
  LET live == SelectSeq(md, LAMBDA e : e.k # PARAMS)
      Selected(e) ==
        IF conditions.kind = "callable" THEN CallCondition(conditions.fn, e.v)
        ELSE \A i \in 1..Len(conditions.items) :
               MetaGet(e.v, conditions.items[i].k) = conditions.items[i].v
      filtered == SelectSeq(live, Selected)
  IN  IF conditions = None THEN Ok(<<>>)
      ELSE IF conditions.kind \notin {"callable", "dict"}
           THEN IF Len(live) > 0 THEN Raise("TypeError") ELSE Ok(<<>>)
      ELSE Ok([j \in 1..Len(filtered) |-> filtered[j].k])

\* filter_by_metadata reads only.
filter_by_metadata(conditions) ==
  /\ last = IDLE
  /\ last' = [op |-> "filter_by_metadata", conditions |-> conditions]
  /\ ret' = FilterOutcome(metadata, conditions)
  /\ UNCHANGED <<vectors, metadata, blob>>

FilterByMetadata ==
  \E conditions \in Conditions : filter_by_metadata(conditions) /\ UNCHANGED <<aside, prev>>

\* The caller takes the result of its call and is ready for the next one.
Returned ==
  /\ last # IDLE
  /\ last' = IDLE
  /\ ret' = Ok(None)
  /\ prev' = IF last.op = "add_vector" /\ ret.kind = "ok"
             THEN [op |-> "add_vector", key |-> ret.val, vector |-> last.vector]
             ELSE IF last.op = "clear" /\ ret.kind = "ok" THEN [op |-> "clear"]
             ELSE NoPrev

Return == Returned /\ UNCHANGED <<vectors, metadata, blob, aside>>

----------------------------------------------------------------------------
(* The ranking step of the two search methods, applied to score arrays.    *)

ScoreVals == {[n |-> x, d |-> 1] : x \in {0, 1, 2}}

ScoreArrays == SeqsUpTo(ScoreVals, MaxRows)

RankTank ==
  \E scores \in ScoreArrays, top_k \in 0..(MaxRows + 1) :
    \E out \in TankTopK(scores, top_k) :
      /\ rank' = [path |-> "tank", scores |-> scores, top_k |-> top_k, out |-> out]
      /\ UNCHANGED <<tankVars, storeVars, beyond>>

RankTable ==
  \E scores \in ScoreArrays, top_k \in 0..(MaxRows + 1) :
    \E out \in TableTopIndices(scores, top_k) :
      /\ rank' = [path |-> "table", scores |-> scores, top_k |-> top_k, out |-> out]
      /\ UNCHANGED <<tankVars, storeVars, beyond>>

NextRank ==
  \/ RankTank
  \/ RankTable

SpecRank == Init /\ [][NextRank]_vars

----------------------------------------------------------------------------
(* vectank/store.py: TankStore.create_tank and get_tank, with the shared    *)
(* memory blocks create_shared_memory allocates. The caller's call record   *)
(* (last, ret) is the one used for the VecTank methods.                     *)

TankNames == {"a", "b"}

\* (max_capacity, single_meta_size) arguments: a region the params fit in, one they do
\* not fit in, and a metadata region of size 0
TankShapes ==
  {[max_capacity |-> MaxCap, single_meta_size |-> SingleMetaSize],
   [max_capacity |-> 1, single_meta_size |-> SingleMetaSize],
   [max_capacity |-> 1, single_meta_size |-> 0]}

\* a shared memory block named f"{tank_name}_{part}" exists
SegExists(tank_name, part) == \E g \in segments : g.tank = tank_name /\ g.part = part

\* SharedMemory(name=f"{tank_name}_{part}", create=True, ...) by the object oid
Seg(tank_name, part, oid) == [tank |-> tank_name, part |-> part, owner |-> oid]

\* create_shared_memory raised after creating blocks: nothing unlinks them. Where a
\* block lives until it is unlinked (POSIX) they stay; where a block goes with its last
\* handle (Windows) they go when the abandoned VecTank object is collected.
Abandon(blocks) == segments' \in {segments \cup blocks, segments}

\* create_tank, with VecTank.__init__ and create_shared_memory inlined: the vector block,
\* then the metadata block, then _update_shared_metadata of the params-only dict.
create_tank(tank_name, max_capacity, single_meta_size) ==
  LET oid == objs + 1
      tank == [oid |-> oid, tank_name |-> tank_name, max_capacity |-> max_capacity,
               meta_shm_single_size |-> single_meta_size]
      size == max_capacity * Dim * 4
      meta_shm_size == single_meta_size * max_capacity
      meta_bytes == PickleDumps(<<[k |-> PARAMS, v |-> ParamsVal]>>)
      vector_block == Seg(tank_name, "vector", oid)
      meta_block == Seg(tank_name, "meta", oid)
  IN  /\ last = IDLE
      /\ DictHas(tanks, tank_name) \/ objs < MaxObjs
      /\ last' = [op |-> "create_tank", tank_name |-> tank_name,
                  max_capacity |-> max_capacity, single_meta_size |-> single_meta_size]
      /\ IF DictHas(tanks, tank_name)
         THEN ret' = Raise("ValueError") /\ UNCHANGED storeVars
         ELSE /\ objs' = oid
              /\ IF SegExists(tank_name, "vector")
                 THEN ret' = Raise("FileExistsError") /\ UNCHANGED <<tanks, segments>>
                 ELSE IF size = 0
                 THEN ret' = Raise("ValueError") /\ UNCHANGED <<tanks, segments>>
                 ELSE IF SegExists(tank_name, "meta")
                 THEN /\ ret' = Raise("FileExistsError")
                      /\ Abandon({vector_block})
                      /\ UNCHANGED tanks
                 ELSE IF meta_shm_size = 0
                 THEN /\ ret' = Raise("ValueError")
                      /\ Abandon({vector_block})
                      /\ UNCHANGED tanks
                 ELSE IF Len(meta_bytes) > meta_shm_size
                 THEN /\ ret' = Raise("MemoryError")
                      /\ Abandon({vector_block, meta_block})
                      /\ UNCHANGED tanks
                 ELSE /\ ret' = Ok(tank)
                      /\ segments' = segments \cup {vector_block, meta_block}
                      /\ tanks' = DictSet(tanks, tank_name, tank)

CreateTank ==
  \E tank_name \in TankNames, shape \in TankShapes :
    /\ create_tank(tank_name, shape.max_capacity, shape.single_meta_size)
    /\ UNCHANGED <<vectors, metadata, blob, rank, prev, beyond>>

\* get_tank: self.tanks.get(tank_name)
get_tank(tank_name) ==
  /\ last = IDLE
  /\ last' = [op |-> "get_tank", tank_name |-> tank_name]
  /\ ret' = Ok(DictGet(tanks, tank_name))
  /\ UNCHANGED storeVars

GetTank ==
  \E tank_name \in TankNames :
    get_tank(tank_name) /\ UNCHANGED <<vectors, metadata, blob, rank, prev, beyond>>

NextStore ==
  \/ CreateTank
  \/ GetTank
  \/ Return

SpecStore == Init /\ [][NextStore]_vars

----------------------------------------------------------------------------
(* vectank/store.py: TankStore.__init__ and _load_all_tanks over the         *)
(* persistence directory, and vectank/table.py: VectorTable.load_from_file.  *)
(* A .npz file is [state, vectors, cols]: the array "vectors" has            *)
(* Len(vectors) rows of cols columns. A .pkl file is [state, metadata]:      *)
(* state "corrupt" is a file pickle.load raises on.                          *)

\* the defaults of VecTank.__init__
DefaultDim == 1200
DefaultMaxCapacity == 100000
DefaultSingleMetaSize == 4096

\* metadata["params"] as VecTank.__init__ builds it from its arguments
Params(tank_name, dim, max_capacity, single_meta_size, sim_method) ==
  [dim |-> dim, dtype |-> "float32", default_sim_method |-> sim_method,
   max_capacity |-> max_capacity, persist |-> FALSE, tank_name |-> tank_name,
   meta_shm_single_size |-> single_meta_size]

\* What writing the pickle of d into a zeroed region of size cells leaves there.
Pack(d, size) == PickleDumps(d) \o Repeat(ZERO, size - Len(PickleDumps(d)))

\* Blocks created by a create_shared_memory that raised (see Abandon).
Abandoned(segs, blocks) == {segs \cup blocks, segs}

\* create_shared_memory of the object oid whose metadata is md, as the set of its
\* outcomes: the exception raised ("" when it returned) and the blocks that then exist.
CreateSharedMemory(segs, tank_name, dim, max_capacity, single_meta_size, md, oid) ==
  LET size == max_capacity * dim * 4
      meta_shm_size == single_meta_size * max_capacity
      vector_block == Seg(tank_name, "vector", oid)
      meta_block == Seg(tank_name, "meta", oid)
      Out(e, S) == {[err |-> e, segments |-> s] : s \in S}
  IN  IF \E g \in segs : g.tank = tank_name /\ g.part = "vector"
      THEN Out("FileExistsError", {segs})
      ELSE IF size = 0 THEN Out("ValueError", {segs})
      ELSE IF \E g \in segs : g.tank = tank_name /\ g.part = "meta"
      THEN Out("FileExistsError", Abandoned(segs, {vector_block}))
      ELSE IF meta_shm_size = 0 THEN Out("ValueError", Abandoned(segs, {vector_block}))
      ELSE IF Len(PickleDumps(md)) > meta_shm_size
      THEN Out("MemoryError", Abandoned(segs, {vector_block, meta_block}))
      ELSE Out("", {segs \cup {vector_block, meta_block}})

\* tank.vectors[:loaded.shape[0]] = loaded : numpy accepts it when the rows fit and the
\* columns are those of the tank or a single column, which it repeats.
Assignable(npz, max_capacity, dim) ==
  /\ Len(npz.vectors) <= max_capacity
  /\ npz.cols = dim \/ npz.cols = 1

AssignRows(npz, max_capacity, dim) ==
  [i \in 1..max_capacity |->
     IF i > Len(npz.vectors) THEN [j \in 1..dim |-> 0]
     ELSE IF npz.cols = 1 THEN [j \in 1..dim |-> npz.vectors[i][1]]
     ELSE npz.vectors[i]]

\* The body of the loop of _load_all_tanks for the file f"{tank_name}.npz": st is
\* [tanks, segments, objs], files the two files of that name. Everything that raises is
\* caught by the except clause, which leaves the name unregistered.
RestoreTank(st, tank_name, files) ==
  LET oid == st.objs + 1
      made == [st EXCEPT !.objs = oid]
      md == files.pkl.metadata
      default == <<[k |-> PARAMS,
                    v |-> Params(tank_name, DefaultDim, DefaultMaxCapacity,
                                 DefaultSingleMetaSize, "COSINE")]>>
  IN  IF DictHas(st.tanks, tank_name) THEN {st}
      ELSE IF files.pkl.state = "none" THEN {made}      \* AttributeError: tank.vectors
      ELSE IF files.pkl.state = "corrupt" THEN {made}   \* pickle.load raises
      ELSE IF ~DictHas(md, PARAMS) THEN {made}          \* KeyError in _parse_params({})
      ELSE
        LET params == DictGet(md, PARAMS)
            meta_shm_size == params.meta_shm_single_size * params.max_capacity
            tank == [oid |-> oid, tank_name |-> params.tank_name, dim |-> params.dim,
                     max_capacity |-> params.max_capacity,
                     sim_method |-> params.default_sim_method,
                     meta_shm_single_size |-> params.meta_shm_single_size,
                     metadata |-> ReadSharedMetadata(Pack(md, meta_shm_size)),
                     vectors |-> AssignRows(files.npz, params.max_capacity, params.dim)]
        IN  UNION {
              IF c.err # "" THEN {[made EXCEPT !.segments = c.segments]}
              ELSE IF Len(PickleDumps(md)) > meta_shm_size      \* MemoryError, line 121
              THEN {[made EXCEPT !.segments = s] : s \in {c.segments, st.segments}}
              ELSE IF ~Assignable(files.npz, params.max_capacity, params.dim)
              THEN {[made EXCEPT !.segments = s] : s \in {c.segments, st.segments}}
              ELSE {[tanks |-> DictSet(st.tanks, tank_name, tank),
                     segments |-> c.segments, objs |-> oid]}
              : c \in CreateSharedMemory(st.segments, params.tank_name, params.dim,
                                         params.max_capacity, params.meta_shm_single_size,
                                         default, oid)}

\* os.listdir gives the files in any order.
Orders(S) == {s \in [1..Cardinality(S) -> S] : \A x \in S : \E i \in DOMAIN s : s[i] = x}

\* the names of the .npz files of a directory
Listed(d) == {n \in DOMAIN d : d[n].npz.state # "none"}

RECURSIVE LoadAllTanks(_, _, _)
LoadAllTanks(st, d, order) ==
  IF Len(order) = 0 THEN {st}
  ELSE UNION {LoadAllTanks(s, d, Tail(order)) : s \in RestoreTank(st, Head(order), d[Head(order)])}

\* TankStore(store_dir): the registry starts empty and _load_all_tanks fills it.
TankStore ==
  /\ last = IDLE
  /\ objs + Cardinality(Listed(dir)) <= MaxObjs
  /\ \E order \in Orders(Listed(dir)) :
       /\ last' = [op |-> "TankStore", order |-> order]
       /\ \E st \in LoadAllTanks([tanks |-> <<>>, segments |-> segments, objs |-> objs],
                                 dir, order) :
            /\ tanks' = st.tanks
            /\ segments' = st.segments
            /\ objs' = st.objs
  /\ ret' = Ok(None)
  /\ UNCHANGED <<vectors, metadata, blob, rank, prev, dir, table, chanVars>>

OneRow == [j \in 1..Dim |-> 1]

\* the dict the store pickles for a tank holding one vector
SavedMeta(tank_name, max_capacity) ==
  <<[k |-> PARAMS, v |-> Params(tank_name, Dim, max_capacity, SingleMetaSize, "COSINE")],
    [k |-> PyStr(1), v |-> MetaA]>>

OkNpz(cols) == [state |-> "ok", vectors |-> <<[j \in 1..cols |-> 1]>>, cols |-> cols]
OkPkl(md) == [state |-> "ok", metadata |-> md]

\* The files a directory can hold under the name n, o being the other name: none; a
\* snapshot of tank n; the files of tank o copied under the name n; one part only; a
\* metadata file that is not a pickle, or holds no params, or whose dict is larger than
\* the region its params describe; a vector file of another dimension.
Snapshots(n, o) ==
  { [npz |-> NoNpz, pkl |-> NoPkl],
    [npz |-> OkNpz(Dim), pkl |-> OkPkl(SavedMeta(n, MaxCap))],
    [npz |-> OkNpz(Dim), pkl |-> OkPkl(SavedMeta(o, MaxCap))],
    [npz |-> OkNpz(Dim), pkl |-> NoPkl],
    [npz |-> NoNpz, pkl |-> OkPkl(SavedMeta(n, MaxCap))],
    [npz |-> OkNpz(Dim), pkl |-> [state |-> "corrupt", metadata |-> <<>>]],
    [npz |-> OkNpz(Dim), pkl |-> OkPkl(<<[k |-> PyStr(1), v |-> MetaA]>>)],
    [npz |-> OkNpz(Dim), pkl |-> OkPkl(SavedMeta(n, 1))],
    [npz |-> OkNpz(Dim + 1), pkl |-> OkPkl(SavedMeta(n, MaxCap))],
    [npz |-> OkNpz(Dim + 1), pkl |-> OkPkl(SavedMeta(o, MaxCap))] }

Dirs ==
  {[n \in FileNames |-> IF n = "a" THEN sa ELSE IF n = "b" THEN sb
                        ELSE [npz |-> NoNpz, pkl |-> NoPkl]] :
     sa \in Snapshots("a", "b"), sb \in Snapshots("b", "a")}

\* the files VectorTable.load_from_file looks for
TableNpz == {NoNpz, [state |-> "ok", vectors |-> <<>>], [state |-> "ok", vectors |-> <<OneRow>>]}

TablePkl ==
  { [state |-> "none", meta_data |-> EmptyTable],
    [state |-> "corrupt", meta_data |-> EmptyTable],
    [state |-> "ok", meta_data |-> [EmptyTable EXCEPT !.auto_id = 1]],
    [state |-> "ok",
     meta_data |-> [vectors |-> <<>>, metadata |-> <<[k |-> PyStr(1), v |-> MetaA]>>,
                    key_to_index |-> <<[k |-> PyStr(1), v |-> [i |-> 0]]>>,
                    auto_id |-> 1]] }

\* load_from_file returning early only when both files are missing.
load_from_file_EitherPart(save_file, vectors_file, meta_file) ==
  /\ last = IDLE
  /\ last' = [op |-> "load_from_file", save_file |-> save_file,
              vectors_file |-> vectors_file, meta_file |-> meta_file]
  /\ IF ~save_file \/ (vectors_file.state = "none" /\ meta_file.state = "none")
     THEN table' = table /\ ret' = Ok(None)
     ELSE IF vectors_file.state = "none"
     THEN table' = table /\ ret' = Raise("FileNotFoundError")
     ELSE /\ table' = [table EXCEPT !.vectors = vectors_file.vectors]
          /\ ret' = Raise("FileNotFoundError")

\* load_from_file: nothing without a save_file or without both files; else _vectors is
\* replaced, then the pickle is read and the other three fields are replaced.
load_from_file(save_file, vectors_file, meta_file) ==
  /\ last = IDLE
  /\ last' = [op |-> "load_from_file", save_file |-> save_file,
              vectors_file |-> vectors_file, meta_file |-> meta_file]
  /\ IF ~save_file THEN table' = table /\ ret' = Ok(None)
     ELSE IF vectors_file.state = "none" \/ meta_file.state = "none"
     THEN table' = table /\ ret' = Ok(None)
     ELSE IF meta_file.state = "corrupt"
     THEN /\ table' = [table EXCEPT !.vectors = vectors_file.vectors]
          /\ ret' = Raise("UnpicklingError")
     ELSE /\ table' = [vectors |-> vectors_file.vectors,
                       metadata |-> meta_file.meta_data.metadata,
                       key_to_index |-> meta_file.meta_data.key_to_index,
                       auto_id |-> meta_file.meta_data.auto_id]
          /\ ret' = Ok(None)

LoadFromFile ==
  \E save_file \in BOOLEAN, vectors_file \in TableNpz, meta_file \in TablePkl :
    /\ load_from_file(save_file, vectors_file, meta_file)
    /\ UNCHANGED <<vectors, metadata, blob, rank, prev, storeVars, dir, chanVars>>

\* The store is constructed over any of the directories.
InitRestore ==
  /\ InitTank
  /\ tanks = <<>>
  /\ segments = {}
  /\ objs = 0
  /\ dir \in Dirs
  /\ table = EmptyTable
  /\ InitChannel

NextRestore ==
  \/ TankStore
  \/ LoadFromFile
  \/ Return

SpecRestore == InitRestore /\ [][NextRestore]_vars

----------------------------------------------------------------------------
(* vectank/store.py: the save command, and a restart of the store over the   *)
(* directory it wrote. The tank "t" is the one whose regions are the         *)
(* variables vectors and blob; the variable metadata is the dict of the      *)
(* handle that called save (VecTank.save needs the store_name only handles   *)
(* made by VecTank.create_tank or VecTank.get_tank carry).                   *)

\* the store's object for the tank "t"
TheTank ==
  [oid |-> 0, tank_name |-> "t", dim |-> Dim, max_capacity |-> MaxCap,
   sim_method |-> "COSINE", meta_shm_single_size |-> SingleMetaSize,
   metadata |-> <<[k |-> PARAMS, v |-> ParamsVal]>>,
   vectors |-> [i \in 1..MaxCap |-> ZeroRow]]

\* the metadata region and the vector region of a registered tank
SharedBlob(tank) ==
  IF tank.oid = 0 THEN blob
  ELSE Pack(tank.metadata, tank.meta_shm_single_size * tank.max_capacity)

SharedRows(tank) == IF tank.oid = 0 THEN vectors ELSE tank.vectors

\* The save command for a registered tank: the store re-reads the metadata region, then
\* writes vectors[:len(tank)] and the dict it read.
SavedFiles(tank) ==
  LET md == ReadSharedMetadata(SharedBlob(tank))
      rows == SharedRows(tank)
  IN  [npz |-> [state |-> "ok", vectors |-> SubSeq(rows, 1, Min(TankLen(md), Len(rows))),
                cols |-> tank.dim],
       pkl |-> [state |-> "ok", metadata |-> md]]

\* dir after the store handled "save,<tank_name>": an unknown name is logged; a name
\* whose region holds no params raises KeyError in _parse_params, which is caught.
HandleSave(tank_name) ==
  IF ~DictHas(tanks, tank_name) THEN dir
  ELSE IF ~DictHas(ReadSharedMetadata(SharedBlob(DictGet(tanks, tank_name))), PARAMS) THEN dir
  ELSE [dir EXCEPT ![tank_name] = SavedFiles(DictGet(tanks, tank_name))]

\* VecTank.save on the handle of "t", the command having reached the store: save
\* returns None whether or not the store acknowledged.
save ==
  /\ last = IDLE
  /\ last' = [op |-> "save"]
  /\ ret' = Ok(None)
  /\ dir' = HandleSave("t")
  /\ UNCHANGED <<vectors, metadata, blob>>

Save == save /\ UNCHANGED <<rank, prev, storeVars, table, chanVars>>

\* The store's process ends, its blocks with it, and a TankStore is constructed over the
\* same directory in a new process.
Restart ==
  /\ last = IDLE
  /\ \E order \in Orders(Listed(dir)) :
       /\ last' = [op |-> "TankStore", order |-> order]
       /\ \E st \in LoadAllTanks([tanks |-> <<>>, segments |-> {}, objs |-> 0], dir, order) :
            /\ tanks' = st.tanks
            /\ segments' = st.segments
            /\ objs' = st.objs
  /\ ret' = Ok(None)
  /\ UNCHANGED <<vectors, metadata, blob, rank, prev, dir, table, chanVars>>

TankCall ==
  \/ AddVector
  \/ AddVectors
  \/ UpdateVector
  \/ Delete
  \/ DeleteKeys
  \/ Clear
  \/ Search
  \/ FilterByMetadata

InitPersist ==
  /\ InitTank
  /\ tanks = <<[k |-> "t", v |-> TheTank]>>
  /\ segments = {Seg("t", "vector", 0), Seg("t", "meta", 0)}
  /\ objs = 0
  /\ dir = NoFiles
  /\ table = EmptyTable
  /\ InitChannel

\* A session on the tank, a save, and a restart; the tank is not changed between the
\* save and the restart.
NextPersist ==
  \/ dir = NoFiles /\ TankCall
  \/ Save
  \/ Restart
  \/ Return

SpecPersist == InitPersist /\ [][NextPersist]_vars

----------------------------------------------------------------------------
(* The command channel: vectank/store.py TankStore.event_loop and            *)
(* stop_event_loop, vectank/tank.py VecTank.send_command_to_store. A command *)
(* is a Python str, the region CommSize cells holding a character or NUL.    *)
(* fill(0), bytes(buffer) and np.any(buffer) are taken as atomic; the write  *)
(* of the command bytes is not synchronised with the store's process, so the *)
(* store can observe the region with only the first k bytes written.         *)

CreateVerb == <<"c", "r", "e", "a", "t", "e">>
SaveVerb == <<"s", "a", "v", "e">>
LogVerb == <<"l", "o", "g">>
FalseStr == <<"F", "a", "l", "s", "e">>
CosineStr == <<"C", "O", "S", "I", "N", "E">>

UpperCase == <<"A", "B", "C", "D", "E", "F", "G", "H", "I", "J", "K", "L", "M",
               "N", "O", "P", "Q", "R", "S", "T", "U", "V", "W", "X", "Y", "Z">>
LowerCase == <<"a", "b", "c", "d", "e", "f", "g", "h", "i", "j", "k", "l", "m",
               "n", "o", "p", "q", "r", "s", "t", "u", "v", "w", "x", "y", "z">>

\* str.lower()
LowerStr(s) ==
  [i \in 1..Len(s) |->
     IF \E j \in 1..26 : UpperCase[j] = s[i]
     THEN LowerCase[CHOOSE j \in 1..26 : UpperCase[j] = s[i]] ELSE s[i]]

\* str.split(',')
Split(s) ==
  LET commas == {i \in 1..Len(s) : s[i] = ","}
      n == Cardinality(commas)
      \* where part j ends: at the j-th comma, the last part at the end of the text
      End(j) == IF j = 0 THEN 0
                ELSE IF j = n + 1 THEN Len(s) + 1
                ELSE CHOOSE i \in commas : Cardinality({c \in commas : c <= i}) = j
  IN  [j \in 1..(n + 1) |-> SubSeq(s, End(j - 1) + 1, End(j) - 1)]

\* ",".join(parts), as the f-strings of tank.py build the commands
RECURSIVE Join(_)
Join(parts) == IF Len(parts) = 1 THEN parts[1]
               ELSE parts[1] \o <<",">> \o Join(Tail(parts))

\* bytes(buffer).split(b'\x00')[0]
CStr(buf) ==
  LET nuls == {i \in 1..Len(buf) : buf[i] = NUL}
  IN  IF nuls = {} THEN buf
      ELSE SubSeq(buf, 1, (CHOOSE i \in nuls : \A j \in nuls : i <= j) - 1)

Zeroed == [i \in 1..CommSize |-> NUL]

\* not np.any(buffer)
AllZero(buf) == \A i \in 1..Len(buf) : buf[i] = NUL

\* The registry key for a tank name received as text: the names of the model are one
\* character long; any other text is the key "?".
Key(name) == IF Len(name) = 1 THEN name[1] ELSE "?"

\* The metric named by a text, in the values the tank model uses
SimName(s) == IF s = CosineStr THEN "COSINE"
              ELSE IF s = <<"I", "N", "N", "E", "R">> THEN "INNER" ELSE "?"

\* TankStore.create_tank called by the polling thread for an unregistered name: the
\* object is constructed, create_shared_memory runs, and the tank is registered when
\* that returns. The caller catches whatever it raises.
StoreCreate(tank_name, dim, max_capacity, single_meta_size, sim_method) ==
  LET oid == objs + 1
      md == <<[k |-> PARAMS,
               v |-> Params(tank_name, dim, max_capacity, single_meta_size, sim_method)]>>
      tank == [oid |-> oid, tank_name |-> tank_name, dim |-> dim,
               max_capacity |-> max_capacity, sim_method |-> sim_method,
               meta_shm_single_size |-> single_meta_size, metadata |-> md,
               vectors |-> [i \in 1..max_capacity |-> [j \in 1..dim |-> 0]]]
  IN  /\ objs' = oid
      /\ \E c \in CreateSharedMemory(segments, tank_name, dim, max_capacity,
                                     single_meta_size, md, oid) :
           /\ segments' = c.segments
           /\ tanks' = IF c.err = "" THEN DictSet(tanks, tank_name, tank) ELSE tanks

\* The create branch: fewer than 6 parts are reported; int() of a part that is no number
\* and parts[6] of a command of 6 parts raise inside the try block.
HandleCreate(parts) ==
  IF /\ Len(parts) >= 7
     /\ IsIntLiteral(parts[3])
     /\ IsIntLiteral(parts[5])
     /\ IsIntLiteral(parts[6])
     /\ ~DictHas(tanks, Key(parts[2]))
  THEN StoreCreate(Key(parts[2]), PyInt(parts[3]), PyInt(parts[5]), PyInt(parts[6]),
                   SimName(parts[7]))
  ELSE UNCHANGED storeVars

\* pickle.loads raises (EOFError, UnpicklingError) on bytes that hold no STOP opcode
Undecodable(buf) == \A i \in 1..Len(buf) : buf[i] # STOP

\* The log branch calls methods on self.tanks.get(parts[1]) outside any try block: for a
\* name that is not registered that is None and the thread ends with AttributeError.
LogRaises(parts) ==
  /\ Len(parts) >= 3
  /\ \/ ~DictHas(tanks, Key(parts[2]))
     \/ Undecodable(SharedBlob(DictGet(tanks, Key(parts[2]))))

\* One iteration of the loop finds the stop flag clear and the first byte set, and reads
\* the command.
LoopRead ==
  /\ loop.at = "poll"
  /\ ~stopper.flag
  /\ comm[1] # NUL
  /\ loop' = [at |-> "handle", cmd |-> CStr(comm)]
  /\ UNCHANGED <<tankVars, rank, th, storeVars, dir, table, comm, commShm, stopper, snd, lock, disp>>

\* The rest of that iteration: the branch for the command, then the acknowledgement.
LoopHandle ==
  /\ loop.at = "handle"
  /\ LET parts == Split(loop.cmd)
         command_name == LowerStr(parts[1])
     IN  /\ IF command_name = CreateVerb THEN HandleCreate(parts) /\ dir' = dir
            ELSE IF command_name = SaveVerb /\ Len(parts) >= 2
            THEN dir' = HandleSave(Key(parts[2])) /\ UNCHANGED storeVars
            ELSE UNCHANGED <<storeVars, dir>>
         /\ IF command_name = LogVerb /\ LogRaises(parts)
            THEN loop' = [at |-> "dead"] /\ comm' = comm
            ELSE loop' = [at |-> "poll"] /\ comm' = Zeroed
  /\ disp' = Append(disp, loop.cmd)
  /\ UNCHANGED <<tankVars, rank, th, table, commShm, stopper, snd, lock>>

\* The loop condition finds the stop flag set: the thread ends.
LoopExit ==
  /\ loop.at = "poll"
  /\ stopper.flag
  /\ loop' = [at |-> "exit"]
  /\ UNCHANGED <<tankVars, rank, th, storeVars, dir, table, comm, commShm, stopper, snd, lock, disp>>

\* History: the producers' records after producer q changed the region to buf. The
\* command of p is pending while it is what the store would read from the region; it is
\* replaced when q's write ends that, and the record keeps whether the polling thread had
\* read it by then.
Replaced(q, buf) ==
  [p \in Producers |->
     IF /\ p # q
        /\ snd[p].at = "wait" \/ (snd[p].at = "out" /\ snd[p].result = "False")
        /\ snd[p].over = "no"
        /\ Len(snd[p].cmd) > 0
        /\ CStr(comm) = snd[p].cmd
        /\ CStr(buf) # snd[p].cmd
     THEN [snd[p] EXCEPT !.over = IF loop.at = "handle" /\ loop.cmd = snd[p].cmd
                                  THEN "read" ELSE "unread"]
     ELSE snd[p]]

\* send_command_to_store(command, timeout=...) begins: without the region it prints and
\* returns False; else it goes for the class lock.
Send(p, command, timeout, limit) ==
  /\ snd[p].at = "out"
  /\ snd[p].sends < limit
  /\ snd' = [snd EXCEPT ![p] =
       [NoCall EXCEPT !.at = IF commShm.exists THEN "lock" ELSE "out",
                      !.result = IF commShm.exists THEN "none" ELSE "False",
                      !.cmd = command, !.timeout = timeout,
                      !.sends = snd[p].sends + 1, !.seen = Len(disp)]]
  /\ UNCHANGED <<tankVars, rank, th, storeVars, dir, table, comm, commShm, loop, stopper, lock, disp>>

\* the class lock of the producer's process is free
LockFree_Always(p) == TRUE

LockFree(p) == lock[Proc(p)] = 0

\* with cls._lock: ... comm_buffer.fill(0)
Acquire(p) ==
  /\ snd[p].at = "lock"
  /\ LockFree(p)
  /\ lock' = [lock EXCEPT ![Proc(p)] = p]
  /\ comm' = Zeroed
  /\ snd' = [Replaced(p, Zeroed) EXCEPT ![p].at = "filled"]
  /\ UNCHANGED <<tankVars, rank, th, storeVars, dir, table, commShm, loop, stopper, disp>>

\* The numbers of bytes of a write of n bytes that a reader in another thread or process
\* may find in the region: all of them, or the first few.
Cuts(n) == {k \in 1..n : k = n \/ k <= MaxTorn}

\* comm_buffer[:len(cmd_bytes)] = cmd_bytes: numpy raises ValueError when the bytes are
\* more than the region holds (the with statement then releases the lock); else the bytes
\* go in, and the store may see the region when only the first k are there.
Write(p) ==
  /\ snd[p].at = "filled"
  /\ LET cmd_bytes == snd[p].cmd \o <<NUL>>
     IN  IF Len(cmd_bytes) > CommSize
         THEN /\ snd' = [snd EXCEPT ![p].at = "out", ![p].result = "ValueError"]
              /\ lock' = [lock EXCEPT ![Proc(p)] = 0]
              /\ comm' = comm
         ELSE \E k \in Cuts(Len(cmd_bytes)) :
                LET buf == [i \in 1..CommSize |-> IF i <= k THEN cmd_bytes[i] ELSE comm[i]]
                IN  /\ comm' = buf
                    /\ snd' = [Replaced(p, buf) EXCEPT
                                 ![p].at = IF k = Len(cmd_bytes) THEN "wait" ELSE "torn",
                                 ![p].k = k]
                    /\ lock' = lock
  /\ UNCHANGED <<tankVars, rank, th, storeVars, dir, table, commShm, loop, stopper, disp>>

\* the bytes after the first k go in
WriteRest(p) ==
  /\ snd[p].at = "torn"
  /\ LET cmd_bytes == snd[p].cmd \o <<NUL>>
         buf == [i \in 1..CommSize |->
                   IF snd[p].k < i /\ i <= Len(cmd_bytes) THEN cmd_bytes[i] ELSE comm[i]]
     IN  /\ comm' = buf
         /\ snd' = [Replaced(p, buf) EXCEPT ![p].at = "wait"]
  /\ UNCHANGED <<tankVars, rank, th, storeVars, dir, table, commShm, loop, stopper, lock, disp>>

\* One evaluation of the while condition and, inside the loop, of the test of the
\* region: True when it is all zero, else a sleep of one poll interval; False once the
\* timeout has elapsed.
Poll(p) ==
  /\ snd[p].at = "wait"
  /\ IF snd[p].polls < snd[p].timeout /\ ~AllZero(comm)
     THEN /\ snd' = [snd EXCEPT ![p].polls = snd[p].polls + 1]
          /\ lock' = lock
     ELSE /\ snd' = [snd EXCEPT ![p].at = "out",
                                ![p].result = IF snd[p].polls < snd[p].timeout
                                              THEN "True" ELSE "False"]
          /\ lock' = [lock EXCEPT ![Proc(p)] = 0]
  /\ UNCHANGED <<tankVars, rank, th, storeVars, dir, table, comm, commShm, loop, stopper, disp>>

\* What leaves a try block whose except clauses handle the exceptions of handled, when
\* its body raised e ("ok": nothing)
Caught(e, handled) == IF e \in handled THEN "ok" ELSE e

\* TankStore.unlink for one tank: shm.unlink() and meta_shm.unlink() share a try block,
\* so when the vector block is gone the metadata block is not unlinked.
RECURSIVE UnlinkTanks(_, _)
UnlinkTanks(segs, ts) ==
  IF Len(ts) = 0 THEN segs
  ELSE UnlinkTanks(
         IF \E g \in segs : g.tank = ts[1].v.tank_name /\ g.part = "vector"
         THEN {g \in segs : g.tank # ts[1].v.tank_name} ELSE segs,
         Tail(ts))

\* TankStore.close: every tank's two handles (what that raises is swallowed), then the
\* handle of the command region. Closing a closed handle does nothing.
close ==
  /\ stopper' = [stopper EXCEPT !.closed = stopper.closed \cup {tanks[i].k : i \in DOMAIN tanks},
                                !.at = IF stopper.at = "close" THEN "unlink" ELSE stopper.at,
                                !.calls = IF stopper.at = "close" THEN stopper.calls
                                          ELSE stopper.calls + 1]
  /\ commShm' = [commShm EXCEPT !.closed = TRUE]
  /\ UNCHANGED <<tankVars, rank, th, storeVars, dir, table, comm, loop, snd, lock, disp>>

\* TankStore.unlink: every tank's two blocks, then the command region, whose
\* FileNotFoundError is caught.
unlink ==
  /\ segments' = UnlinkTanks(segments, tanks)
  /\ commShm' = [commShm EXCEPT !.exists = FALSE]
  /\ stopper' = [stopper EXCEPT
                    !.at = "out", !.calls = stopper.calls + 1,
                    !.result = IF stopper.result # "ok" THEN stopper.result
                               ELSE Caught(IF commShm.exists THEN "ok" ELSE "FileNotFoundError",
                                           {"FileNotFoundError"})]
  /\ UNCHANGED <<tankVars, rank, th, tanks, objs, dir, table, comm, loop, snd, lock, disp>>

\* stop_event_loop: self._stop_event.set()
StopSet ==
  /\ stopper.at = "out"
  /\ stopper.calls < MaxStops
  /\ stopper' = [stopper EXCEPT !.at = "join", !.flag = TRUE]
  /\ UNCHANGED <<tankVars, rank, th, storeVars, dir, table, comm, commShm, loop, snd, lock, disp>>

\* the polling thread has ended
Joined_NoWait == TRUE

Joined == loop.at \in {"exit", "dead"}

\* self._event_thread.join() returns
StopJoin ==
  /\ stopper.at = "join"
  /\ Joined
  /\ stopper' = [stopper EXCEPT !.at = "close"]
  /\ UNCHANGED <<tankVars, rank, th, storeVars, dir, table, comm, commShm, loop, snd, lock, disp>>

\* self.close() of stop_event_loop
StopClose == stopper.at = "close" /\ close

\* self.unlink() of stop_event_loop, which then returns
StopUnlink == stopper.at = "unlink" /\ unlink

\* close() or unlink() called on a store that was stopped
Close == stopper.at = "out" /\ stopper.calls \in 1..(MaxStops - 1) /\ close

Unlink == stopper.at = "out" /\ stopper.calls \in 1..(MaxStops - 1) /\ unlink

\* The commands the producers of the model send: the create command that
\* VecTank.create_tank formats, one with six parts, one whose metadata block has no
\* bytes, save and log for a registered and an unregistered name, an unknown verb, and a
\* log command whose message does not fit the region.
SimText(sim_method) == IF sim_method = "COSINE" THEN CosineStr ELSE <<"I", "N", "N", "E", "R">>

\* f"create,{tank_name},{dim},{persist},{max_capacity},{single_meta_size},{sim_method}"
CreateText(tank_name, dim, max_capacity, single_meta_size, sim_method) ==
  Join(<<CreateVerb, <<tank_name>>, PyStr(dim), FalseStr, PyStr(max_capacity),
         PyStr(single_meta_size), SimText(sim_method)>>)

CreateCmd(tank_name, single_meta_size) ==
  CreateText(tank_name, Dim, MaxCap, single_meta_size, "COSINE")

SaveCmd(tank_name) == Join(<<SaveVerb, <<tank_name>>>>)

LogCmd(tank_name, message) == Join(<<LogVerb, <<tank_name>>, message>>)

LongMessage == [i \in 1..CommSize |-> "m"]

Commands ==
  { CreateCmd("a", SingleMetaSize),
    SubSeq(CreateCmd("a", SingleMetaSize), 1, Len(CreateCmd("a", SingleMetaSize)) - 7),
    CreateCmd("b", 0),
    SaveCmd("a"), SaveCmd("b"),
    LogCmd("a", <<"m">>), LogCmd("b", <<"m">>),
    <<"x">>,
    LogCmd("a", LongMessage) }

\* A store constructed over an empty directory, its polling thread started.
InitChan ==
  /\ InitTank
  /\ tanks = <<>>
  /\ segments = {}
  /\ objs = 0
  /\ dir = NoFiles
  /\ table = EmptyTable
  /\ InitChannel

Loop == LoopRead \/ LoopHandle \/ LoopExit

Stop == StopSet \/ StopJoin \/ StopClose \/ StopUnlink \/ Close \/ Unlink

Sender(p) == Acquire(p) \/ Write(p) \/ WriteRest(p) \/ Poll(p)

\* One producer sending one command after another, the polling thread, and the owner of
\* the store stopping it.
NextChan ==
  \/ \E command \in Commands, timeout \in 0..MaxTimeout : Send(1, command, timeout, MaxSends)
  \/ Sender(1)
  \/ Loop
  \/ Stop

SpecChan == InitChan /\ [][NextChan]_vars

\* The polling thread is a thread of the store's process that the scheduler keeps
\* running: a step of it that stays possible is taken.
NextChanLive ==
  \/ \E command \in Commands : Send(1, command, MaxTimeout, 1)
  \/ Sender(1)
  \/ Loop
  \/ Stop

SpecChanLive == InitChan /\ [][NextChanLive]_vars /\ WF_vars(Loop)

\* Three producers, 1 and 2 threads of one process and 3 in another process, each
\* sending one command of its own, all of them commands the loop acknowledges.
CommandOf(p) == IF p = 1 THEN SaveCmd("a") ELSE IF p = 2 THEN SaveCmd("b") ELSE <<"x">>

NextChan2 ==
  \/ \E p \in Producers : Send(p, CommandOf(p), MaxTimeout, 1)
  \/ \E p \in Producers : Sender(p)
  \/ LoopRead
  \/ LoopHandle

SpecChan2 == InitChan /\ [][NextChan2]_vars

----------------------------------------------------------------------------
(* The tank operations called from two threads of one process.             *)

\* with self.__class__._lock: the thread gets the lock when it is free
Enter(t) ==
  /\ th[t].at = "out"
  /\ LockFree(t)
  /\ lock' = [lock EXCEPT ![Proc(t)] = t]
  /\ th' = [th EXCEPT ![t].at = "held"]
  /\ UNCHANGED <<tankVars, rank, storeVars, dir, table, comm, commShm, loop, stopper, snd, disp>>

\* The first statement of the body: the operation starts reading the tank.
Read(t) ==
  /\ th[t].at = "held"
  /\ th' = [th EXCEPT ![t].at = "body", ![t].seen = <<vectors, metadata, blob>>]
  /\ UNCHANGED <<tankVars, rank, storeVars, dir, table, comm, commShm, loop, stopper, snd, lock, disp>>

\* The rest of the body of one of the eight operations: what it writes and what it
\* produces.
Act(t) == th[t].at = "body" /\ TankCall

\* The with statement ends, by return or by the exception, and releases the lock.
Exit(t) ==
  /\ th[t].at \in {"body", "zeroed"}
  /\ Returned
  /\ lock' = [lock EXCEPT ![Proc(t)] = 0]
  /\ th' = [th EXCEPT ![t] = [at |-> "out", seen |-> <<>>, ran |-> TRUE]]
  /\ UNCHANGED <<vectors, metadata, blob, rank, storeVars, dir, table, comm, commShm, loop,
                 stopper, snd, disp>>

NextLock == \E t \in Threads : Enter(t) \/ Read(t) \/ Act(t) \/ Exit(t)

SpecLock == Init /\ [][NextLock]_vars

----------------------------------------------------------------------------
(* VecTank.get_tank and VecTank.create_tank: a handle attaching by name.   *)

\* np.dtype("float32").itemsize
ItemSize == 4

\* The sizes a block created with size bytes may have for a process that attaches to
\* it: the size asked for, or that size rounded up to the platform's page.
PageSizes == {4096, 16384}

BufSizes(size) == {size} \cup {((size + pg - 1) \div pg) * pg : pg \in PageSizes}

\* the shapes and metrics tanks are created with, and asked for, in the model
ShapeDims == 1..MaxShapeDim

ShapeCaps == 2..MaxShapeCap

SimMethods == {"COSINE", "INNER"}

\* the tank that TankStore.create_tank registers for these arguments
StoreTank(tank_name, dim, max_capacity, sim_method) ==
  [oid |-> 1, tank_name |-> tank_name, dim |-> dim, max_capacity |-> max_capacity,
   sim_method |-> sim_method, meta_shm_single_size |-> SingleMetaSize,
   metadata |-> <<[k |-> PARAMS,
                   v |-> Params(tank_name, dim, max_capacity, SingleMetaSize, sim_method)]>>,
   vectors |-> [i \in 1..max_capacity |-> [j \in 1..dim |-> 0]]]

\* attach_shared_memory on a handle constructed with (dim, max_capacity, sim_method),
\* the vector block having bufsize bytes for this process: the view is made with the
\* handle's own shape, which numpy refuses when the block is smaller; then the metadata
\* is read and _parse_params sets the attributes. The view is not made again.
attach_shared_memory(tank_name, dim, max_capacity, sim_method, bufsize) ==
  IF ~SegExists(tank_name, "vector") THEN Raise("FileNotFoundError")
  ELSE IF max_capacity * dim * ItemSize > bufsize THEN Raise("TypeError")
  ELSE IF ~SegExists(tank_name, "meta") THEN Raise("FileNotFoundError")
  ELSE LET md == ReadSharedMetadata(SharedBlob(DictGet(tanks, tank_name)))
           params == DictGet(md, PARAMS)
       IN  Ok([tank_name |-> params.tank_name, dim |-> params.dim,
               max_capacity |-> params.max_capacity,
               sim_method |-> params.default_sim_method,
               shape |-> <<max_capacity, dim>>, metadata |-> md])

\* the bytes of the vector block of a registered tank, as the attaching process finds it
BlockSizes(tank_name) ==
  IF DictHas(tanks, tank_name)
  THEN BufSizes(DictGet(tanks, tank_name).max_capacity * DictGet(tanks, tank_name).dim
                * ItemSize)
  ELSE {0}

\* VecTank.get_tank(tank_name): cls(tank_name) has the default shape
VecTankGetTank ==
  \E tank_name \in TankNames :
    \E bufsize \in BlockSizes(tank_name) :
      /\ last = IDLE
      /\ last' = [op |-> "VecTank.get_tank", tank_name |-> tank_name, bufsize |-> bufsize]
      /\ ret' = attach_shared_memory(tank_name, DefaultDim, DefaultMaxCapacity, "COSINE",
                                     bufsize)
      /\ UNCHANGED <<vectors, metadata, blob, prev, aside>>

\* VecTank.create_tank for a name the store holds: the store reports that the tank
\* exists and acknowledges, or the call times out and returns None with the command
\* left in the region; after the acknowledgement the handle has the caller's shape.
VecTankCreateTank ==
  \E tank_name \in {tanks[i].k : i \in DOMAIN tanks}, dim \in ShapeDims,
     max_capacity \in ShapeCaps, sim_method \in SimMethods, acked \in BOOLEAN :
    \E bufsize \in BlockSizes(tank_name) :
      LET create_cmd == CreateText(tank_name, dim, max_capacity, SingleMetaSize, sim_method)
      IN  /\ last = IDLE
          /\ Len(disp) < MaxSends
          /\ AllZero(comm)
          /\ Len(create_cmd) < CommSize
          /\ last' = [op |-> "VecTank.create_tank", tank_name |-> tank_name,
                      bufsize |-> bufsize]
          /\ IF acked
             THEN /\ comm' = Zeroed
                  /\ disp' = Append(disp, create_cmd)
                  /\ ret' = attach_shared_memory(tank_name, dim, max_capacity, sim_method,
                                                 bufsize)
             ELSE /\ comm' = [i \in 1..CommSize |->
                                IF i <= Len(create_cmd) THEN create_cmd[i] ELSE NUL]
                  /\ disp' = disp
                  /\ ret' = Ok(None)
          /\ UNCHANGED <<vectors, metadata, blob, prev, rank, storeVars, dir, table,
                         commShm, loop, stopper, snd, lock, th>>

\* A store holding one tank "a", created with a shape of the model.
InitAttach ==
  /\ InitTank
  /\ \E dim \in ShapeDims, max_capacity \in ShapeCaps, sim_method \in SimMethods :
       tanks = <<[k |-> "a", v |-> StoreTank("a", dim, max_capacity, sim_method)]>>
  /\ segments = {Seg("a", "vector", 1), Seg("a", "meta", 1)}
  /\ objs = 1
  /\ dir = NoFiles
  /\ table = EmptyTable
  /\ InitChannel

NextAttach == VecTankGetTank \/ VecTankCreateTank \/ Return

SpecAttach == InitAttach /\ [][NextAttach]_vars

----------------------------------------------------------------------------
(* _update_shared_metadata in two steps, beside the polling thread.        *)

\* self.meta_shm.buf[:self._meta_shm_size] = b'\x00' * self._meta_shm_size: the thread
\* is in a mutating method whose size check has passed.
ZeroFill(t) ==
  /\ th[t].at = "body"
  /\ last = IDLE
  /\ blob' = [i \in 1..Len(blob) |-> ZERO]
  /\ th' = [th EXCEPT ![t].at = "zeroed"]
  /\ UNCHANGED <<vectors, metadata, last, ret, prev, rank, storeVars, dir, table, comm,
                 commShm, loop, stopper, snd, lock, disp>>

\* self.meta_shm.buf[:len(meta_bytes)] = meta_bytes, and the method returns: the method
\* is one of those that publish, with arguments that pass its checks.
Rewrite(t) ==
  /\ th[t].at = "zeroed"
  /\ AddVector \/ Clear
  /\ blob' = Published(metadata')

\* the same methods when their two writes of the region are not separated, and the
\* calls of them that raise
ActWhole(t) == th[t].at = "body" /\ (AddVector \/ Clear)

\* A thread of the store's process working on the store's tank "t", a producer of
\* another process sending save and log commands for it, and the polling thread.
NextPublish ==
  \/ Enter(1) \/ Read(1) \/ ActWhole(1) \/ ZeroFill(1) \/ Rewrite(1) \/ Exit(1)
  \/ \E command \in {SaveCmd("t"), LogCmd("t", <<"m">>)} : Send(3, command, MaxTimeout, 1)
  \/ Sender(3)
  \/ LoopRead
  \/ LoopHandle

SpecPublish == InitPersist /\ [][NextPublish]_vars

----------------------------------------------------------------------------
(* Two tanks used from two threads of one process.                         *)

\* A thread begins one of the eight operations on the handle of another tank, "b": the
\* with statement takes VecTank._lock, an attribute of the class that every handle
\* shares.
EnterOther(t) ==
  /\ th[t].at = "out"
  /\ snd[t].at = "out"
  /\ LockFree(t)
  /\ lock' = [lock EXCEPT ![Proc(t)] = t]
  /\ th' = [th EXCEPT ![t].at = "other"]
  /\ UNCHANGED <<tankVars, rank, storeVars, dir, table, comm, commShm, loop, stopper, snd, disp>>

\* That operation ends and releases the lock.
ExitOther(t) ==
  /\ th[t].at = "other"
  /\ lock' = [lock EXCEPT ![Proc(t)] = 0]
  /\ th' = [th EXCEPT ![t] = [at |-> "out", seen |-> <<>>, ran |-> TRUE]]
  /\ UNCHANGED <<tankVars, rank, storeVars, dir, table, comm, commShm, loop, stopper, snd, disp>>

\* A store holding the tanks "t" and "b".
InitTwoTanks ==
  /\ InitTank
  /\ tanks = <<[k |-> "t", v |-> TheTank],
               [k |-> "b", v |-> StoreTank("b", Dim, MaxCap, "COSINE")]>>
  /\ segments = {Seg("t", "vector", 0), Seg("t", "meta", 0),
                 Seg("b", "vector", 1), Seg("b", "meta", 1)}
  /\ objs = 1
  /\ dir = NoFiles
  /\ table = EmptyTable
  /\ InitChannel

\* Thread 1 works on tank "t"; thread 2 of the same process works on tank "b" or sends
\* a save command and waits for the acknowledgement.
NextTwoTanks ==
  \/ Enter(1) \/ Read(1) \/ ActWhole(1) \/ Exit(1)
  \/ EnterOther(2) \/ ExitOther(2)
  \/ th[2].at = "out" /\ Send(2, SaveCmd("b"), MaxTimeout, MaxSends)
  \/ Sender(2)
  \/ LoopRead
  \/ LoopHandle

SpecTwoTanks == InitTwoTanks /\ [][NextTwoTanks]_vars

----------------------------------------------------------------------------
(* VecTank.create_tank for a name the store does not hold.                 *)

\* create_tank formats the command and enters send_command_to_store with the default
\* timeout.
CreateTankSend(p) ==
  \E tank_name \in TankNames, dim \in ShapeDims, max_capacity \in ShapeCaps,
     sim_method \in SimMethods :
    /\ last = IDLE
    /\ ~DictHas(tanks, tank_name)
    /\ snd[p].at = "out"
    /\ snd[p].sends < MaxSends
    /\ last' = [op |-> "VecTank.create_tank", tank_name |-> tank_name, dim |-> dim,
                max_capacity |-> max_capacity, sim_method |-> sim_method, at |-> "send"]
    /\ snd' = [snd EXCEPT ![p] =
         [NoCall EXCEPT !.at = "lock",
                        !.cmd = CreateText(tank_name, dim, max_capacity, SingleMetaSize,
                                           sim_method),
                        !.timeout = MaxTimeout,
                        !.sends = snd[p].sends + 1, !.seen = Len(disp)]]
    /\ UNCHANGED <<vectors, metadata, blob, ret, prev, rank, th, storeVars, dir, table,
                   comm, commShm, loop, stopper, lock, disp>>

\* send_command_to_store has returned: on False create_tank returns None, on True it
\* constructs the handle with the caller's arguments and attaches it.
CreateTankAttach(p) ==
  /\ last # IDLE
  /\ last.op = "VecTank.create_tank"
  /\ last.at = "send"
  /\ snd[p].at = "out"
  /\ \E bufsize \in BlockSizes(last.tank_name) :
       ret' = IF snd[p].result = "True"
              THEN attach_shared_memory(last.tank_name, last.dim, last.max_capacity,
                                        last.sim_method, bufsize)
              ELSE Ok(None)
  /\ last' = [last EXCEPT !.at = "done"]
  /\ UNCHANGED <<vectors, metadata, blob, prev, aside>>

NextCreate ==
  \/ CreateTankSend(1)
  \/ Sender(1)
  \/ CreateTankAttach(1)
  \/ Return
  \/ LoopRead
  \/ LoopHandle

SpecCreate == InitChan /\ [][NextCreate]_vars

----------------------------------------------------------------------------
(* Two handles of the tank "t": the handle whose dict is the variable       *)
(* metadata, and the store's own object, whose dict is tanks["t"].metadata.  *)
(* Both write the same rows and the same metadata region.                    *)

\* add_vector called on the store's object of "t": the row index and the key come from
\* the dict of that object, which also is what it publishes.
StoreAddVector ==
  \E vector \in Vecs, meta \in Metas :
    LET tank == DictGet(tanks, "t")
        num_vectors == TankLen(tank.metadata)
        key == PyStr(num_vectors + 1)
        md == DictSet(tank.metadata, key, meta)
    IN  /\ last = IDLE
        /\ DictHas(tanks, "t")
        /\ last' = [op |-> "Tank.add_vector", vector |-> vector, meta |-> meta]
        /\ IF num_vectors >= MaxCap
           THEN /\ ret' = Raise("MemoryError")
                /\ UNCHANGED <<vectors, blob, tanks>>
           ELSE /\ vectors' = [vectors EXCEPT ![num_vectors + 1] = vector]
                /\ tanks' = DictSet(tanks, "t", [tank EXCEPT !.metadata = md])
                /\ IF Fits(md)
                   THEN blob' = Published(md) /\ ret' = Ok(key)
                   ELSE blob' = blob /\ ret' = Raise("MemoryError")
        /\ UNCHANGED <<metadata, prev, rank, segments, objs, beyond>>

NextTwoHandles ==
  \/ AddVector
  \/ StoreAddVector
  \/ Search
  \/ Return

SpecTwoHandles == InitPersist /\ [][NextTwoHandles]_vars

----------------------------------------------------------------------------
(* TankStore.__exit__ and __del__: close(), then unlink() when the loop has *)
(* started, on a store whose stop_event_loop was not called.                 *)

\* self.close() of __exit__ or __del__: neither sets the stop flag nor joins the thread
ExitClose ==
  /\ stopper.at = "out"
  /\ stopper.calls = 0
  /\ close

\* if self._loop: self.unlink()
ExitUnlink ==
  /\ stopper.at = "out"
  /\ stopper.calls = 1
  /\ ~stopper.flag
  /\ commShm.exists
  /\ unlink

\* The view of the polling thread is over a mapping that close() has unmapped: an
\* iteration that tests or reads it either still finds the bytes (LoopRead, LoopHandle)
\* or faults, which ends the thread.
LoopFault ==
  /\ loop.at \in {"poll", "handle"}
  /\ commShm.closed
  /\ loop' = [at |-> "dead"]
  /\ UNCHANGED <<tankVars, rank, th, storeVars, dir, table, comm, commShm, stopper, snd,
                 lock, disp>>

NextExit ==
  \/ \E command \in {CreateCmd("a", SingleMetaSize), SaveCmd("a"), <<"x">>} :
       Send(1, command, MaxTimeout, MaxSends)
  \/ Sender(1)
  \/ LoopRead
  \/ LoopHandle
  \/ LoopFault
  \/ ExitClose
  \/ ExitUnlink

SpecExit == InitChan /\ [][NextExit]_vars

----------------------------------------------------------------------------
(* A sender that waits with the class lock held, beside a polling thread    *)
(* that is scheduled between any two of the sender's polls: the loop sleeps  *)
(* 0.01 s per iteration, the sender 0.1 s per poll.                          *)

\* the polling thread has nothing to do, or has ended
LoopIdle == loop.at \in {"exit", "dead"} \/ (loop.at = "poll" /\ comm[1] = NUL)

\* The sender is a thread of the store's process: the interpreter lock makes the store
\* of the command bytes one step for the polling thread.
WriteWhole(p) == Write(p) /\ snd'[p].at # "torn"

HeldSender(p) == Acquire(p) \/ WriteWhole(p) \/ (LoopIdle /\ Poll(p))

\* Two threads of the store's process, each sending one command.
NextHeld ==
  \/ \E command \in Commands : Send(1, command, MaxTimeout, 1)
  \/ \E command \in {SaveCmd("b"), LogCmd("b", <<"m">>), <<"x">>} :
       Send(2, command, MaxTimeout, 1)
  \/ \E t \in Threads : HeldSender(t)
  \/ LoopRead
  \/ LoopHandle

SpecHeld ==
  InitChan /\ [][NextHeld]_vars /\ WF_vars(Loop) /\ \A t \in Threads : WF_vars(HeldSender(t))

----------------------------------------------------------------------------
(* vectank/table.py: the mutating methods of VectorTable. _key_to_index     *)
(* maps a key to [i |-> the zero-based row].                                 *)

\* the largest value _auto_id takes in the model
MaxAutoId == 4

\* keys a caller supplies: one that an auto-numbered key can equal, and one that cannot
TableKeys == {PyStr(1), <<"a">>}

\* d[ks[i]] = vs[i] for i = 1 .. Len(ks), in that order
RECURSIVE DictSetAll(_, _, _)
DictSetAll(d, ks, vs) ==
  IF Len(ks) = 0 THEN d
  ELSE DictSetAll(DictSet(d, Head(ks), Head(vs)), Tail(ks), Tail(vs))

\* del d[k]
DictDel(d, k) == SelectSeq(d, LAMBDA e : e.k # k)

\* the call ends here, the table being t and the result r
TableEnds(op, t, r) ==
  /\ last = IDLE
  /\ last' = op
  /\ table' = t
  /\ ret' = r
  /\ UNCHANGED <<vectors, metadata, blob, rank, prev, storeVars, dir, chanVars>>

\* VectorTable.add_vector(vector, metadata, key); key may be None
TableAddVector ==
  \E vector \in Vecs \cup {WrongVec}, meta \in Metas,
     key \in {Str(k) : k \in TableKeys} \cup {None} :
    LET auto == key = None
        k == IF auto THEN PyStr(table.auto_id + 1) ELSE key.s
        t == IF auto THEN [table EXCEPT !.auto_id = table.auto_id + 1] ELSE table
        new_index == Len(table.vectors)
        op == [op |-> "VectorTable.add_vector", vector |-> vector, key |-> key]
    IN  /\ table.auto_id < MaxAutoId
        /\ Len(table.vectors) < MaxRows
        /\ IF DictHas(table.key_to_index, k) \/ Len(vector) # Dim
           THEN TableEnds(op, t, Raise("ValueError"))
           ELSE TableEnds(op,
                          [t EXCEPT !.vectors = Append(table.vectors, vector),
                                    !.key_to_index = DictSet(table.key_to_index, k,
                                                             [i |-> new_index]),
                                    !.metadata = DictSet(table.metadata, k, meta)],
                          Ok(k))

\* VectorTable.add_vectors(vectors, metadata_list, keys): every key is tested against
\* the keys the table holds, then the rows are appended and the keys registered in order.
TableAddVectors ==
  \E vecs \in Batches :
    \E metadata_list \in MetaLists(Len(vecs.rows)),
       keys \in {None} \cup {[list |-> l] : l \in SeqsUpTo(TableKeys, Len(vecs.rows) + 1)} :
      LET n == Len(vecs.rows)
          auto == keys = None
          KeyAt(i) == IF auto THEN PyStr(table.auto_id + i) ELSE keys.list[i]
          held == {i \in 1..n : DictHas(table.key_to_index, KeyAt(i))}
          first == CHOOSE i \in held : \A j \in held : i <= j
          old_count == Len(table.vectors)
          new_keys == [i \in 1..n |-> KeyAt(i)]
          op == [op |-> "VectorTable.add_vectors", vectors |-> vecs, keys |-> keys]
      IN  /\ table.auto_id + n <= MaxAutoId
          /\ Len(table.vectors) + n <= MaxRows
          /\ IF \/ vecs.width # Dim
                \/ Len(metadata_list) # n
                \/ (~auto /\ Len(keys.list) # n)
             THEN TableEnds(op, table, Raise("ValueError"))
             ELSE IF held # {}
             THEN TableEnds(op,
                            IF auto THEN [table EXCEPT !.auto_id = table.auto_id + first]
                            ELSE table,
                            Raise("ValueError"))
             ELSE TableEnds(op,
                            [vectors |-> table.vectors \o vecs.rows,
                             key_to_index |->
                               DictSetAll(table.key_to_index, new_keys,
                                          [i \in 1..n |-> [i |-> old_count + i - 1]]),
                             metadata |-> DictSetAll(table.metadata, new_keys, metadata_list),
                             auto_id |-> IF auto THEN table.auto_id + n ELSE table.auto_id],
                            Ok(new_keys))

\* VectorTable.update_vector(key, new_vector, new_metadata); new_metadata may be None
TableUpdateVector ==
  \E key \in TableKeys \cup {PyStr(2)}, new_vector \in Vecs \cup {WrongVec},
     new_metadata \in Metas \cup {None} :
    LET op == [op |-> "VectorTable.update_vector", key |-> key]
        index == DictGet(table.key_to_index, key).i
    IN  IF ~DictHas(table.key_to_index, key) THEN TableEnds(op, table, Raise("KeyError"))
        ELSE IF Len(new_vector) # Dim THEN TableEnds(op, table, Raise("ValueError"))
        ELSE TableEnds(op,
                       [table EXCEPT
                          !.vectors = [table.vectors EXCEPT ![index + 1] = new_vector],
                          !.metadata = IF new_metadata = None THEN table.metadata
                                       ELSE DictSet(table.metadata, key, new_metadata)],
                       Ok(None))

\* VectorTable.delete(key): np.delete of the row, the two entries, then the remaining
\* keys are numbered in the order the dict holds them.
TableDelete ==
  \E key \in TableKeys \cup {PyStr(2)} :
    LET op == [op |-> "VectorTable.delete", key |-> key]
        del_index == DictGet(table.key_to_index, key).i
        rest == DictDel(table.key_to_index, key)
    IN  IF ~DictHas(table.key_to_index, key) THEN TableEnds(op, table, Raise("KeyError"))
        ELSE IF del_index >= Len(table.vectors) THEN TableEnds(op, table, Raise("IndexError"))
        ELSE TableEnds(op,
                       [table EXCEPT
                          !.vectors = [i \in 1..(Len(table.vectors) - 1) |->
                                         IF i <= del_index THEN table.vectors[i]
                                         ELSE table.vectors[i + 1]],
                          !.metadata = DictDel(table.metadata, key),
                          !.key_to_index = [i \in 1..Len(rest) |->
                                              [k |-> rest[i].k, v |-> [i |-> i - 1]]]],
                       Ok(None))

\* VectorTable.clear
TableClear ==
  /\ last = IDLE
  /\ TableEnds([op |-> "VectorTable.clear"],
               [vectors |-> <<>>, metadata |-> <<>>, key_to_index |-> <<>>, auto_id |-> 0],
               Ok(None))

NextTable ==
  \/ TableAddVector
  \/ TableAddVectors
  \/ TableUpdateVector
  \/ TableDelete
  \/ TableClear
  \/ Return

SpecTable == Init /\ [][NextTable]_vars

----------------------------------------------------------------------------
Next ==
  \/ AddVector
  \/ AddVectors
  \/ UpdateVector
  \/ Delete
  \/ DeleteKeys
  \/ Clear
  \/ Search
  \/ FilterByMetadata
  \/ Return

Spec == Init /\ [][Next]_vars

----------------------------------------------------------------------------
(* Properties of VecTank.                                                  *)

\* the keys of the dict other than "params"
LiveKeys(md) == {md[i].k : i \in 1..Len(md)} \ {PARAMS}

\* the strings "1" .. str(n)
DenseKeys(n) == {PyStr(i) : i \in 1..n}

\* C1: after any sequence of add_vector, add_vectors, update_vector, delete, delete_keys
\* and clear, the keys other than "params" are exactly "1" .. str(len(tank)).
C1_KeysDense == LiveKeys(metadata) = DenseKeys(TankLen(metadata))

\* C2: delete(k) with 1 <= k <= n on a tank of n live keys returns, leaves n - 1 live
\* keys, keeps the vector and metadata of every key j < k, gives every key j in k..n-1
\* the vector and metadata key j + 1 had, and zeroes row n - 1 (0-based).
C2_DeleteShiftsDown ==
  [][\A k \in 1..TankLen(metadata) :
       (last'.op = "delete" /\ last'.key = PyStr(k)) =>
         LET n == TankLen(metadata)
         IN  /\ ret'.kind = "ok"
             /\ TankLen(metadata') = n - 1
             /\ LiveKeys(metadata') = DenseKeys(n - 1)
             /\ \A j \in 1..(k - 1) :
                  /\ vectors'[j] = vectors[j]
                  /\ DictGet(metadata', PyStr(j)) = DictGet(metadata, PyStr(j))
             /\ \A j \in k..(n - 1) :
                  /\ vectors'[j] = vectors[j + 1]
                  /\ DictGet(metadata', PyStr(j)) = DictGet(metadata, PyStr(j + 1))
             /\ vectors'[n] = ZeroRow]_vars

\* C3: delete(key) with a key that is not a live key raises KeyError and leaves the rows,
\* the dict and the published blob as they were.
C3_DeleteUnknownKeyRaises ==
  [][(last'.op = "delete" /\ last'.key \notin LiveKeys(metadata)) =>
       (ret'.kind = "KeyError" /\ UNCHANGED <<vectors, metadata, blob>>)]_vars

\* the keys of a delete_keys argument that int() turns into a number in 1..n
InRange(key, n) == IsIntLiteral(key) /\ PyInt(key) >= 1 /\ PyInt(key) <= n

\* C4 as stated: delete_keys never raises because of a key that is not live, deletes
\* exactly the listed keys that are live, and returns only those.
C4_SkipsUnknownKeys ==
  [][last'.op = "delete_keys" =>
       LET found == SelectSeq(last'.keys, LAMBDA k : k \in LiveKeys(metadata))
       IN  /\ ret'.kind = "ok"
           /\ ret'.val = found
           /\ TankLen(metadata') = TankLen(metadata) - Cardinality(Range(found))]_vars

\* C4: delete_keys raises KeyError and changes nothing whenever a listed key does not
\* convert with int() or converts to a number outside 1..len(tank); no key is skipped.
\* Whenever it returns, every listed key was in that range and the value returned is
\* the keys argument itself.
C4_RejectsUnknownKeys ==
  [][last'.op = "delete_keys" =>
       /\ (\E i \in 1..Len(last'.keys) : ~InRange(last'.keys[i], TankLen(metadata)))
            => (ret'.kind = "KeyError" /\ UNCHANGED <<vectors, metadata, blob>>)
       /\ ret'.kind = "ok"
            => /\ \A i \in 1..Len(last'.keys) : InRange(last'.keys[i], TankLen(metadata))
               /\ ret'.val = last'.keys]_vars

\* delete_keys was given one key in range and one out of range, and raised KeyError
C4_Witness ==
  /\ last.op = "delete_keys"
  /\ ret.kind = "KeyError"
  /\ \E i, j \in 1..Len(last.keys) :
       /\ InRange(last.keys[i], TankLen(metadata))
       /\ IsIntLiteral(last.keys[j])
       /\ ~InRange(last.keys[j], TankLen(metadata))

\* C5: delete_keys of m distinct live keys of a tank with n live keys returns those keys
\* and leaves n - m live keys "1" .. str(n - m): the surviving (vector, metadata) pairs
\* in their original order, rows n - m .. n - 1 (0-based) zeroed.
C5_DeleteKeysCompacts ==
  [][(/\ last'.op = "delete_keys"
      /\ Range(last'.keys) \subseteq LiveKeys(metadata)
      /\ Len(last'.keys) >= 1
      /\ Cardinality(Range(last'.keys)) = Len(last'.keys)) =>
       LET n == TankLen(metadata)
           m == Len(last'.keys)
           \* the surviving keys of "1" .. str(n), in ascending order
           kept == SelectSeq([i \in 1..n |-> PyStr(i)], LAMBDA k : k \notin Range(last'.keys))
       IN  /\ ret' = Ok(last'.keys)
           /\ TankLen(metadata') = n - m
           /\ LiveKeys(metadata') = DenseKeys(n - m)
           /\ \A j \in 1..(n - m) :
                /\ vectors'[j] = vectors[PyInt(kept[j])]
                /\ DictGet(metadata', PyStr(j)) = DictGet(metadata, kept[j])
           /\ \A r \in (n - m + 1)..n : vectors'[r] = ZeroRow]_vars

\* C6: the live count never exceeds max_capacity, and add_vector on a tank whose live
\* count equals max_capacity raises MemoryError and leaves the live count, the rows and
\* the dict unchanged.
C6_CapacityRespected ==
  [][/\ TankLen(metadata') <= ParamsVal.max_capacity
     /\ (last'.op = "add_vector" /\ TankLen(metadata) = ParamsVal.max_capacity)
          => (ret'.kind = "MemoryError" /\ UNCHANGED <<vectors, metadata>>)]_vars

\* C7: whenever add_vectors raises, no row has been written and no dict entry added;
\* whenever it returns, the n rows of the batch are at rows live_count ..
\* live_count + n - 1 (0-based) and the live count grew by n.
C7_AddVectorsAtomic ==
  [][last'.op = "add_vectors" =>
       LET n == Len(last'.vectors.rows)
           live_count == TankLen(metadata)
       IN  /\ ret'.kind # "ok" => UNCHANGED <<vectors, metadata>>
           /\ ret'.kind = "ok" =>
                /\ TankLen(metadata') = live_count + n
                /\ \A i \in 1..n : vectors'[live_count + i] = last'.vectors.rows[i]]_vars

\* the first half of C7 alone: a raising add_vectors has written nothing
C7_RaiseWritesNothing ==
  [][(last'.op = "add_vectors" /\ ret'.kind # "ok") => UNCHANGED <<vectors, metadata>>]_vars

\* a sim_method argument search accepts
Supported(sim_method) == sim_method = NoMetric \/ Lower(sim_method) \in SimMethodNames

\* C8: for a query of the right dimension and top_k >= 0, search returns exactly
\* min(top_k, live_count) results, each a live key with that key's current vector and
\* metadata, no key twice.
C8_SearchReturnsLiveKeys ==
  (last.op = "search" /\ Len(last.query) = Dim /\ Supported(last.sim_method)) =>
    /\ ret.kind = "ok"
    /\ Len(ret.val) = Min(last.top_k, TankLen(metadata))
    /\ \A j \in 1..Len(ret.val) :
         /\ ret.val[j].key \in LiveKeys(metadata)
         /\ ret.val[j].vector = vectors[PyInt(ret.val[j].key)]
         /\ ret.val[j].metadata = DictGet(metadata, ret.val[j].key)
    /\ \A i, j \in 1..Len(ret.val) : i # j => ret.val[i].key # ret.val[j].key

\* search(v, top_k = 1) under sim_method, issued in this state, can only return key
TopIs(v, sim_method, key) ==
  \A o \in SearchOutcomes(vectors, metadata, v, 1, sim_method) :
    o.kind = "ok" /\ Len(o.val) = 1 /\ o.val[1].key = key

StrictlyBest(v, sim_method, key) ==
  LET live == Min(TankLen(metadata), MaxCap)
      scores == SIM_METHODS(sim_method, SubSeq(vectors, 1, live), v)
  IN  /\ PyInt(key) <= live
      /\ \A r \in (1..live) \ {PyInt(key)} : ScoreLt(scores[r], scores[PyInt(key)])

----------------------------------------------------------------------------
(* Properties of the ranking step (SpecRank).                              *)

\* the rows in non-increasing score, rows of equal score in ascending row index
StableOrder(scores) ==
  CHOOSE p \in Perms(Len(scores)) :
    \A i \in 1..(Len(scores) - 1) :
      \/ ScoreLt(scores[p[i + 1]], scores[p[i]])
      \/ ScoreEq(scores[p[i + 1]], scores[p[i]]) /\ p[i] < p[i + 1]

\* C9 as stated: the rows returned are the first top_k rows of the order by
\* non-increasing score with equal scores in ascending row index, on the partition path
\* and on the full-sort path.
C9_TiesInRowOrder ==
  rank.path # "none" => rank.out = Take(StableOrder(rank.scores), rank.top_k)

\* C9: the rows returned are min(top_k, rows) distinct rows in non-increasing score, and
\* no row left out scores higher than a row returned; the order among rows of equal
\* score, and which of them are returned at the cut, is not fixed. This holds on the
\* partition path and on the full-sort path.
C9_OrderedByScore ==
  rank.path # "none" =>
    /\ Len(rank.out) = Min(rank.top_k, Len(rank.scores))
    /\ Range(rank.out) \subseteq 1..Len(rank.scores)
    /\ \A i, j \in 1..Len(rank.out) : i # j => rank.out[i] # rank.out[j]
    /\ \A j \in 1..(Len(rank.out) - 1) :
         ScoreLe(rank.scores[rank.out[j + 1]], rank.scores[rank.out[j]])
    /\ \A r \in (1..Len(rank.scores)) \ Range(rank.out) :
         \A j \in 1..Len(rank.out) : ScoreLe(rank.scores[r], rank.scores[rank.out[j]])

\* the partition path of VectorTable.search returned rows of equal score out of row
\* order and left out a row of lower score
C9_Witness ==
  /\ rank.path = "table"
  /\ rank.top_k < Len(rank.scores)
  /\ \E i, j \in 1..Len(rank.out) :
       /\ i < j
       /\ ScoreEq(rank.scores[rank.out[i]], rank.scores[rank.out[j]])
       /\ rank.out[i] > rank.out[j]
  /\ \E r \in (1..Len(rank.scores)) \ Range(rank.out) :
       ScoreLt(rank.scores[r], rank.scores[rank.out[1]])

----------------------------------------------------------------------------
(* Properties of VecTank, continued (Spec).                                *)

\* the keys a search(v, top_k) issued in this state can return, over every top_k and
\* every supported metric
SearchableKeys(v) ==
  UNION {UNION {{o.val[j].key : j \in 1..Len(o.val)} :
                  o \in {x \in SearchOutcomes(vectors, metadata, v, top_k, sim_method) :
                           x.kind = "ok"}} :
           top_k \in TopKs, sim_method \in {m \in MetricArgs : Supported(m)}}

C12_UpdateRejects ==
  [][last'.op = "update_vector" =>
       /\ last'.key \notin LiveKeys(metadata)
            => (ret'.kind = "KeyError" /\ UNCHANGED <<vectors, metadata>>)
       /\ (last'.key \in LiveKeys(metadata) /\ Len(last'.new_vector) # Dim)
            => (ret'.kind = "ValueError" /\ UNCHANGED <<vectors, metadata>>)]_vars

\* C13: an update_vector(key, v, md) that returns overwrites only the row of key, sets
\* the metadata of key to md when md is given and keeps it when md is None, leaves the
\* live count, the key set and every other row and entry unchanged; on a tank of one
\* vector a following search(v, top_k = 1) returns key with that metadata.
C13_UpdateOverwritesInPlace ==
  [][(last'.op = "update_vector" /\ ret'.kind = "ok") =>
       LET key == last'.key
           row == PyInt(key)
           md == last'.new_metadata
       IN  /\ vectors' = [vectors EXCEPT ![row] = last'.new_vector]
           /\ DictGet(metadata', key) = IF md # None THEN md ELSE DictGet(metadata, key)
           /\ TankLen(metadata') = TankLen(metadata)
           /\ LiveKeys(metadata') = LiveKeys(metadata)
           /\ \A k \in LiveKeys(metadata) \ {key} :
                DictGet(metadata', k) = DictGet(metadata, k)
           /\ TankLen(metadata') = 1 =>
                \A o \in SearchOutcomes(vectors', metadata', last'.new_vector, 1, NoMetric) :
                  /\ o.kind = "ok"
                  /\ Len(o.val) = 1
                  /\ o.val[1].key = key
                  /\ o.val[1].metadata = DictGet(metadata', key)]_vars

\* the equality-map call of filter_by_metadata made in the step
FilterByMap(op, conditions) ==
  op = "filter_by_metadata" /\ conditions # None /\ conditions.kind = "dict"

\* C14 as stated: filter_by_metadata with an equality map returns exactly the live keys
\* whose metadata has every listed field, with the listed value; never "params"; and
\* the tank is not modified.
C14_FilterByFieldsPresent ==
  [][FilterByMap(last'.op, last'.conditions) =>
       LET items == last'.conditions.items
       IN  /\ ret'.kind = "ok"
           /\ Range(ret'.val) =
                {k \in LiveKeys(metadata) :
                   \A i \in 1..Len(items) :
                     /\ items[i].k \in DOMAIN DictGet(metadata, k)
                     /\ Str(DictGet(metadata, k)[items[i].k]) = items[i].v}
           /\ PARAMS \notin Range(ret'.val)
           /\ UNCHANGED <<vectors, metadata, blob>>]_vars

\* C14: filter_by_metadata with an equality map returns, each once, exactly the live
\* keys whose metadata m has m.get(field) equal to the listed value for every listed
\* field, where a field absent from m counts as None (so {field: None} selects the
\* entries without that field); never "params"; and the tank is not modified.
C14_FilterByGet ==
  [][FilterByMap(last'.op, last'.conditions) =>
       LET items == last'.conditions.items
       IN  /\ ret'.kind = "ok"
           /\ Range(ret'.val) =
                {k \in LiveKeys(metadata) :
                   \A i \in 1..Len(items) :
                     MetaGet(DictGet(metadata, k), items[i].k) = items[i].v}
           /\ Cardinality(Range(ret'.val)) = Len(ret'.val)
           /\ PARAMS \notin Range(ret'.val)
           /\ UNCHANGED <<vectors, metadata, blob>>]_vars

\* an equality map with a None value selected an entry that lacks the field and left
\* out an entry that has it
C14_Witness ==
  /\ FilterByMap(last.op, last.conditions)
  /\ ret.kind = "ok"
  /\ \E i \in 1..Len(last.conditions.items) : last.conditions.items[i].v = None
  /\ ret.val # <<>>
  /\ LiveKeys(metadata) \ Range(ret.val) # {}

\* C15: filter_by_metadata with a condition that is neither a callable nor an equality
\* map raises TypeError in every tank state, a tank without live vectors included.
C15_FilterRejectsOtherTypes ==
  [][(/\ last'.op = "filter_by_metadata"
      /\ last'.conditions # None
      /\ last'.conditions.kind \notin {"callable", "dict"}) => ret'.kind = "TypeError"]_vars

\* C16: search with a metric name other than inner, cosine or euclidean (in any case)
\* raises the unsupported-metric error (ValueError) in every tank state, the empty tank
\* included, and returns no result list.
C16_SearchRejectsUnknownMetric ==
  (/\ last.op = "search"
   /\ Len(last.query) = Dim
   /\ ~Supported(last.sim_method)) => ret.kind = "ValueError"

\* C17: after clear() the live count is 0, every row of the buffer is zero and the dict
\* holds only "params", with the content it had; the add_vector that comes next and
\* returns, returns "1".
C17_ClearResets ==
  [][/\ last'.op = "clear" =>
          /\ ret'.kind = "ok"
          /\ TankLen(metadata') = 0
          /\ \A r \in 1..MaxCap : vectors'[r] = ZeroRow
          /\ metadata' = <<[k |-> PARAMS, v |-> DictGet(metadata, PARAMS)]>>
     /\ (last'.op = "add_vector" /\ prev.op = "clear" /\ Len(last'.vector) = Dim) =>
          /\ ret'.kind \in {"ok", "MemoryError"}
          /\ ret'.kind = "ok" => ret'.val = PyStr(1)]_vars

\* add_vector returned "1" right after a clear
C17_Witness ==
  /\ last.op = "add_vector"
  /\ prev.op = "clear"
  /\ ret = Ok(PyStr(1))
  /\ vectors[1] # ZeroRow

\* the methods that write
Mutating ==
  {"add_vector", "add_vectors", "update_vector", "delete", "delete_keys", "clear"}

\* C18: whenever add_vector, add_vectors, update_vector, delete, delete_keys or clear
\* returns, the blob in the metadata region decodes to exactly the tank's dict, "params"
\* included, in the same order.
C18_BlobDecodesToMetadata ==
  (last.op \in Mutating /\ ret.kind = "ok") => ReadSharedMetadata(blob) = metadata

\* a writing method returned on a tank with live vectors and the blob was rewritten
C18_Witness ==
  /\ last.op \in {"add_vectors", "delete", "update_vector"}
  /\ ret.kind = "ok"
  /\ TankLen(metadata) >= 1
  /\ ReadSharedMetadata(blob) = metadata

\* C19: whenever a method raises, the rows, the dict and the published blob describe
\* the same set of keys afterwards, and the rows and the dict have either both or
\* neither taken the attempted change.
C19_RaiseLeavesConsistent ==
  [][(last' # IDLE /\ ret'.kind # "ok") =>
       /\ LiveKeys(ReadSharedMetadata(blob')) = LiveKeys(metadata')
       /\ UNCHANGED <<vectors, metadata>> \/ (vectors' # vectors /\ metadata' # metadata)]_vars

----------------------------------------------------------------------------
(* Properties of TankStore (SpecStore).                                    *)

\* arguments create_shared_memory can allocate for: both blocks of positive size and a
\* metadata region that holds the params-only dict
Allocatable(max_capacity, single_meta_size) ==
  /\ max_capacity * Dim > 0
  /\ Len(PickleDumps(<<[k |-> PARAMS, v |-> ParamsVal]>>)) <= single_meta_size * max_capacity

\* create_tank of a registered name raises ValueError and changes neither the registry
\* nor any block
DuplicateRejected ==
  (last'.op = "create_tank" /\ DictHas(tanks, last'.tank_name)) =>
    (ret'.kind = "ValueError" /\ UNCHANGED <<tanks, segments>>)

\* get_tank returns the registered object, None for a name not registered
GetReturnsRegistered ==
  last'.op = "get_tank" => ret' = Ok(DictGet(tanks, last'.tank_name))

\* C20 as stated: create_tank of a registered name raises ValueError and leaves the
\* registry and the blocks untouched; otherwise the new tank is allocated and
\* registered; get_tank returns that same object, None for a name never registered.
C20_NamesUnique ==
  [][/\ DuplicateRejected
     /\ (/\ last'.op = "create_tank"
         /\ ~DictHas(tanks, last'.tank_name)
         /\ Allocatable(last'.max_capacity, last'.single_meta_size)) =>
          /\ ret'.kind = "ok"
          /\ DictGet(tanks', last'.tank_name) = ret'.val
          /\ \A part \in {"vector", "meta"} :
               Seg(last'.tank_name, part, ret'.val.oid) \in segments'
          /\ \A n \in TankNames \ {last'.tank_name} : DictGet(tanks', n) = DictGet(tanks, n)
     /\ GetReturnsRegistered]_vars

\* the part of C20 that is about registered names: duplicates are rejected without
\* effect, a create_tank that returns has registered its object under a name that was
\* free, and get_tank returns the registered object or None
C20_RegisteredNamesUnique ==
  [][/\ DuplicateRejected
     /\ (last'.op = "create_tank" /\ ret'.kind = "ok") =>
          /\ ~DictHas(tanks, last'.tank_name)
          /\ DictGet(tanks', last'.tank_name) = ret'.val
     /\ GetReturnsRegistered]_vars

----------------------------------------------------------------------------
(* C21..C30                                                                  *)

\* The files of the name n restore when they are the only ones in the directory and no
\* block exists.
RestorableAlone(n) ==
  /\ dir[n].npz.state # "none"
  /\ \A st \in RestoreTank([tanks |-> <<>>, segments |-> {}, objs |-> 0], n, dir[n]) :
       DictHas(st.tanks, n)

\* C21: constructing a TankStore never raises because of a snapshot, and every snapshot
\* that restores on its own is registered afterwards, whatever happened to the other
\* snapshots of the directory and wherever they came in the scan.
C21_RestoreIsolatesFailures ==
  last.op = "TankStore" =>
    /\ ret.kind = "ok"
    /\ \A n \in FileNames : RestorableAlone(n) => DictHas(tanks, n)

\* the tank name in the params of the metadata file of the name n
NameInParams(n) == DictGet(dir[n].pkl.metadata, PARAMS).tank_name

\* What does hold: the constructor returns, and a snapshot that restores on its own is
\* registered unless a block of its tank name existed before the construction or
\* another file of the scan carried that tank name in its params.
C21_IsolatedUnlessNameTaken ==
  [][last'.op = "TankStore" =>
       /\ ret'.kind = "ok"
       /\ \A n \in FileNames :
            RestorableAlone(n) =>
              \/ DictHas(tanks', n)
              \/ \E g \in segments : g.tank = NameInParams(n)
              \/ \E i \in DOMAIN last'.order :
                   /\ last'.order[i] # n
                   /\ dir[last'.order[i]].pkl.state = "ok"
                   /\ DictHas(dir[last'.order[i]].pkl.metadata, PARAMS)
                   /\ NameInParams(last'.order[i]) = NameInParams(n)]_vars

\* one of the two files of the name n is missing
PartMissing(n) == dir[n].npz.state = "none" \/ dir[n].pkl.state = "none"

RestoredAfterSave == last'.op = "TankStore" /\ last = IDLE /\ dir["t"].npz.state # "none"

\* C23: after a save and a restart over the same directory the tank "t" is registered
\* with the dimension, capacity and metric it had, the same live count, and the same
\* metadata under the same keys in the same order and the same vector for every key.
C23_SaveRestoreRoundTrip ==
  [][RestoredAfterSave =>
       /\ DictHas(tanks', "t")
       /\ LET r == DictGet(tanks', "t")
          IN  /\ r.dim = ParamsVal.dim
              /\ r.max_capacity = ParamsVal.max_capacity
              /\ r.sim_method = ParamsVal.default_sim_method
              /\ TankLen(r.metadata) = TankLen(metadata)
              /\ r.metadata = metadata
              /\ \A k \in 1..Min(TankLen(metadata), MaxCap) : r.vectors[k] = vectors[k]]_vars

\* What does hold: the restored tank is the published one, that is the dict last written
\* to the metadata region and the rows of the vector region up to its count.
C23_PublishedStateRoundTrips ==
  [][RestoredAfterSave =>
       /\ DictHas(tanks', "t")
       /\ LET r == DictGet(tanks', "t")
              md == ReadSharedMetadata(blob)
          IN  /\ r.dim = ParamsVal.dim
              /\ r.max_capacity = ParamsVal.max_capacity
              /\ r.sim_method = ParamsVal.default_sim_method
              /\ r.metadata = md
              /\ \A k \in 1..Min(TankLen(md), MaxCap) : r.vectors[k] = vectors[k]]_vars

\* C24: while the polling loop has not been asked to stop, a command in the channel is
\* eventually acknowledged: whenever the first byte of the region is set, the loop
\* eventually has the whole region zero and is polling again (or has been asked to stop).
C24_EveryCommandAcknowledged ==
  (comm[1] # NUL /\ ~stopper.flag) ~> (stopper.flag \/ (AllZero(comm) /\ loop.at = "poll"))

\* C25: send_command_to_store always ends with a boolean, True only when the region was
\* seen all zero before the timeout elapsed, and after no more polls than the timeout
\* allows.
C25_SendReturnsBoolean ==
  \A p \in Producers :
    /\ snd[p].result \in {"none", "True", "False"}
    /\ snd[p].polls <= snd[p].timeout
    /\ snd[p].result = "True" => snd[p].polls < snd[p].timeout

\* C26: stop_event_loop releases only after the polling thread has ended, the tanks'
\* regions before the command region; no release raises, a second one included; and
\* once a release has returned no command is dispatched.
C26_StopThenRelease ==
  /\ [](/\ (commShm.closed \/ ~commShm.exists \/ stopper.closed # {}
               \/ stopper.at \in {"close", "unlink"})
            => loop.at \in {"exit", "dead"}
        /\ commShm.closed => \A i \in DOMAIN tanks : tanks[i].k \in stopper.closed
        /\ ~commShm.exists => \A i \in DOMAIN tanks : \A g \in segments :
                                 g.tank # tanks[i].v.tank_name
        /\ stopper.result = "ok")
  /\ [][stopper.calls >= 1 => disp' = disp]_vars

\* a tank was created through the channel, and the store was stopped and then released
\* once more
C26_Witness ==
  /\ stopper.calls = 2
  /\ stopper.at = "out"
  /\ tanks # <<>>
  /\ stopper.closed # {}
  /\ ~commShm.exists

\* C30: with one producer sending one command after another, a call that returns True
\* has had exactly its command dispatched by the loop, exactly once, between its start
\* and its return.
C30_TrueMeansDispatchedOnce ==
  snd[1].result = "True" =>
    Cardinality({i \in (snd[1].seen + 1)..Len(disp) : disp[i] = snd[1].cmd}) = 1

\* the producer is between its write and its return
Outstanding(p) == snd[p].at \in {"filled", "torn", "wait"}

\* the loop has dispatched the command of p
Dispatched(p) == \E i \in DOMAIN disp : disp[i] = snd[p].cmd

\* C29 as stated: producers of one process never have commands outstanding together,
\* and a command replaced in the region by another producer while it was pending is
\* never dispatched.
C29_OverwrittenNeverDispatched ==
  /\ \A p, r \in Producers : (p # r /\ Proc(p) = Proc(r)) => ~(Outstanding(p) /\ Outstanding(r))
  /\ \A p \in Producers : snd[p].over # "no" => ~Dispatched(p)

\* C29 as the code has it: the same, the command being lost only when the loop had not
\* read it before it was replaced; one that the loop had already read is dispatched.
C29_OverwrittenUnreadNeverDispatched ==
  /\ \A p, r \in Producers : (p # r /\ Proc(p) = Proc(r)) => ~(Outstanding(p) /\ Outstanding(r))
  /\ \A p \in Producers : snd[p].over = "unread" => ~Dispatched(p)
  /\ \A p \in Producers : (snd[p].over = "read" /\ loop.at # "handle") => Dispatched(p)

\* every producer has returned, one of them with its command replaced before the loop
\* read it, another with its command replaced after
C29_Witness ==
  /\ \A p \in Producers : snd[p].at = "out" /\ snd[p].sends = 1
  /\ \E p, r \in Producers : snd[p].over = "unread" /\ snd[r].over = "read"

\* the thread is inside the with block of an operation
InBody(t) == th[t].at \in {"held", "body"}

\* C27: the operations of two threads of one process never overlap: a thread inside an
\* operation holds the lock, no other thread is inside one, and the tank it acts on is
\* the tank it found when it began, so the operations take effect one after another.
C27_OperationsSerialized ==
  \A t \in Threads :
    /\ InBody(t) => lock[Proc(t)] = t
    /\ InBody(t) => \A u \in Threads \ {t} : ~InBody(u)
    /\ (th[t].at = "body" /\ last = IDLE) => th[t].seen = <<vectors, metadata, blob>>

\* one thread has completed an operation and is outside; the other is inside one that
\* has changed the tank, which now holds two vectors
C27_Witness ==
  /\ th[1].ran /\ th[1].at = "out"
  /\ th[2].at = "body"
  /\ last # IDLE
  /\ TankLen(metadata) = 2
  /\ th[2].seen # <<vectors, metadata, blob>>

\* the cells of the vector block that row k of a view of this shape covers (row-major)
RowCells(shape, k) == {(k - 1) * shape[2] + j : j \in 1..shape[2]}

\* a call that attaches to the registered tank has ended, create_tank having been
\* acknowledged
AttachedByName ==
  /\ last # IDLE
  /\ last.op \in {"VecTank.get_tank", "VecTank.create_tank"}
  /\ DictHas(tanks, last.tank_name)
  /\ ret # Ok(None)

\* C28: a handle obtained by name (get_tank, or create_tank for a name that exists) has
\* the dimension, capacity and metric the tank was created with, and its view has the
\* creator's shape, so that row k covers the cells the creator wrote row k to.
C28_AttachReconstructsShape ==
  AttachedByName =>
    LET tank == DictGet(tanks, last.tank_name)
    IN  /\ ret.kind = "ok"
        /\ ret.val.dim = tank.dim
        /\ ret.val.max_capacity = tank.max_capacity
        /\ ret.val.sim_method = tank.sim_method
        /\ ret.val.shape = <<tank.max_capacity, tank.dim>>
        /\ \A k \in 1..tank.max_capacity :
             RowCells(ret.val.shape, k) = RowCells(<<tank.max_capacity, tank.dim>>, k)

----------------------------------------------------------------------------
(* C31..C40                                                                *)

\* the producer's last call has returned False
ReturnedFalse(p) == snd[p].at = "out" /\ snd[p].result = "False"

\* C31: a command whose submission returned False is not dispatched by the store
\* afterwards: while the producer is back from such a call, no step of the polling
\* thread dispatches that command.
C31_FalseNeverDispatched ==
  [][ReturnedFalse(1) =>
       ~(Len(disp') = Len(disp) + 1 /\ disp'[Len(disp')] = snd[1].cmd)]_vars

\* the thread is between the zero-fill and the rewrite of the metadata region
HalfPublished(t) == th[t].at = "zeroed" /\ last = IDLE

\* the polling thread is about to run a handler that re-reads the region of a
\* registered tank: save, or log
ReadsRegion ==
  /\ loop.at = "handle"
  /\ LET parts == Split(loop.cmd)
     IN  /\ Len(parts) >= 2
         /\ DictHas(tanks, Key(parts[2]))
         /\ \/ LowerStr(parts[1]) = SaveVerb
            \/ LowerStr(parts[1]) = LogVerb /\ Len(parts) >= 3

\* C32: while a thread is between the zero-fill and the rewrite of the metadata region,
\* no other thread of the process reads the region: the polling thread runs no save or
\* log handler for that tank in such a state.
C32_NoHalfPublishedRead ==
  [][~(HalfPublished(1) /\ ReadsRegion /\ loop'.at # "handle")]_vars

\* the thread is inside send_command_to_store, in the with block
InSend(p) == snd[p].at \in {"filled", "torn", "wait"}

\* C33: mutual exclusion is per tank: while thread 2 is inside an operation on tank "b"
\* or inside send_command_to_store waiting for the acknowledgement, thread 1, which is
\* in no operation, can begin one on tank "t".
C33_LockPerTank ==
  (th[1].at = "out" /\ (th[2].at = "other" \/ InSend(2))) => ENABLED Enter(1)

\* C34: in every reachable state of a tank, every row of the vector buffer at an index
\* at or above the live count is all zeros.
C34_RowsBeyondCountZero ==
  \A i \in 1..MaxCap : i > TankLen(metadata) => vectors[i] = ZeroRow

\* C35: a VecTank.create_tank call for a name the store did not hold, whose command was
\* acknowledged, leaves a store-side tank of that name with the caller's dimension,
\* capacity, metadata slot size and metric, and returns a handle attached to that tank.
C35_CreateRoundTrip ==
  (last # IDLE /\ last.op = "VecTank.create_tank" /\ last.at = "done"
     /\ snd[1].result = "True") =>
    /\ DictHas(tanks, last.tank_name)
    /\ LET tank == DictGet(tanks, last.tank_name)
       IN  /\ tank.tank_name = last.tank_name
           /\ tank.dim = last.dim
           /\ tank.max_capacity = last.max_capacity
           /\ tank.meta_shm_single_size = SingleMetaSize
           /\ tank.sim_method = last.sim_method
    /\ ret.kind = "ok"
    /\ ret.val # None
    /\ ret.val.tank_name = last.tank_name

\* C36: a save request for a tank whose persist flag is False writes no snapshot file,
\* so the directory of the store holds no file of that tank.
C36_SaveOnlyWhenPersistent ==
  \A n \in FileNames :
    (DictHas(tanks, n) /\ ~DictGet(DictGet(tanks, n).metadata, PARAMS).persist) =>
      dir[n] = NoFiles[n]

\* C37: when an add_vector through the handle has returned a key and the next call is
\* an add_vector through the store's object of the same tank, the second call returns
\* another key, the first vector is still in its row, and the dict of either handle
\* holds both keys.
C37_SecondHandleAddsBeside ==
  [][(prev.op = "add_vector" /\ last'.op = "Tank.add_vector" /\ ret'.kind = "ok") =>
       /\ ret'.val # prev.key
       /\ vectors'[PyInt(prev.key)] = prev.vector
       /\ DictHas(metadata', ret'.val)
       /\ DictHas(DictGet(tanks', "t").metadata, prev.key)]_vars

\* C38: once the command region or a tank's regions have been closed or unlinked, the
\* polling thread takes no further step: it neither reads the command region, nor
\* handles a command, nor clears the region.
C38_NoLoopStepAfterRelease ==
  [][(commShm.closed \/ ~commShm.exists \/ stopper.closed # {}) =>
       (loop' = loop /\ disp' = disp)]_vars

\* C39: a sender that waits for the acknowledgement with the class lock held ends its
\* call with True.
C39_LockHolderAcknowledged ==
  \A t \in Threads :
    (snd[t].at = "wait" /\ lock[Proc(t)] = t) ~> (snd[t].result = "True")

\* C40: in the VectorTable the key-to-index table is a bijection from its keys onto the
\* row indices 0 .. rows - 1, and the metadata has exactly the same keys.
C40_KeyIndexBijection ==
  LET k2i == table.key_to_index
      keys == {k2i[i].k : i \in 1..Len(k2i)}
  IN  /\ {k2i[i].v.i : i \in 1..Len(k2i)} = 0..(Len(table.vectors) - 1)
      /\ Cardinality(keys) = Len(table.vectors)
      /\ {table.metadata[i].k : i \in 1..Len(table.metadata)} = keys

====
